---------------------------- MODULE Spec2Model ----------------------------
(***************************************************************************)
(* Knowledge ingestion and retrieval-augmented answering of YuanziWuli:    *)
(* the text chunker (backend/app/kb/chunker.py), the ingestion job of      *)
(* KBService (backend/app/services/kb_service.py) and the confidence       *)
(* scorer of RAGService (backend/app/services/rag_service.py).             *)
(*                                                                         *)
(* Texts are sequences of characters over Alphabet.  Progress values and   *)
(* scores are kept in exact arithmetic: progress in tenths, distances and  *)
(* scores in tenths, a confidence as a numerator over an explicit          *)
(* denominator.                                                            *)
(***************************************************************************)
EXTENDS Integers, Sequences, FiniteSets, TLC

VARIABLES
    \* --- TextChunker._split_text_with_overlap, one loop iteration per step
    s_text,         \* the text being split
    s_chunk_size,   \* self.chunk_size
    s_overlap,      \* self.overlap
    s_start,        \* local start
    s_chunks,       \* local chunks (the list returned)
    s_pc,           \* "call" | "loop" | "done"
    s_policy,       \* the policy TextChunker(...) was constructed from
    \* --- TextChunker.chunk_document
    parsed_doc,     \* [type, content, raw_text]
    policy,         \* [max_chars, overlap] given to TextChunker(...)
    doc_chunks,     \* the list chunk_document returned
    c_pc,           \* "call" | "done"
    \* --- KBService.ingest_document / _ingest_document_task
    tasks,          \* committed IngestTask rows, task_id = position
    documents,      \* committed Document rows, by id
    chunk_rows,     \* committed Chunk rows, in insertion order
    collections,    \* the vector store: collection name -> (id -> record)
    connected,      \* ChromaAdapter.connected
    jobs,           \* the background job of each task: its locals and position
    \* --- RAGService.ask_question / _calculate_confidence
    q_search_results,  \* what search_knowledge returned
    q_chunk_details,   \* the evidence list handed to the scorer
    q_answer,          \* the answer text of the LLM
    q_confidence,      \* the confidence returned, a fraction [num, den]
    q_pc,              \* "idle" | "no_evidence" | "answered" | "scored" |
                       \* "retrieved"
    q_final_results,   \* the candidates after the optional re-rank
    q_rerank_calls,    \* number of calls of the re-rank client
    q_rerank_answer,   \* what the re-rank service answered
    q_distances,       \* the distances the store reported for the hits
    q_citations,       \* the citations extracted from the answer
    q_llm_calls,       \* number of calls of the generation client
    q_response,        \* the response returned: [qa_id, followups]
    qa_logs,           \* committed QALog rows, qa_id = position
    \* --- ChromaAdapter, called on its own
    store_op,          \* the last call: [op, course_id, vectors, document_id]
    store_before,      \* [collections, connected] before the last call
    \* --- qa_stream and RAGService._generate_answer_stream
    stream_message,    \* the message qa_stream received, None without one
    stream_script,     \* what the generation client produces when called
    stream_events,     \* the events yielded or sent so far, in order
    stream_pending,    \* the text chunks the client has yet to produce
    stream_pc,         \* "idle" | "streaming" | "closed" | "handled"
    \* --- ChromaAdapter.init_connection and the persisted directory
    client,            \* self.client: None, or Some([id, probed])
    fs_dir,            \* CHROMA_PERSIST_DIR: "absent", or what it holds
    fs_backups,        \* the sibling backup directories: [stamp, holds]
    conn_last,         \* the last call: what it met and how it ended
    conn_count         \* number of calls of init_connection so far

splitVars == <<s_text, s_chunk_size, s_overlap, s_start, s_chunks, s_pc,
               s_policy>>
chunkVars == <<parsed_doc, policy, doc_chunks, c_pc>>
ingestVars == <<tasks, documents, chunk_rows, collections, connected, jobs>>
scoreVars == <<q_search_results, q_chunk_details, q_answer, q_confidence, q_pc,
               q_final_results, q_rerank_calls, q_rerank_answer, q_distances,
               q_citations, q_llm_calls, q_response, qa_logs>>
storeVars == <<store_op, store_before>>
streamVars == <<stream_message, stream_script, stream_events, stream_pending,
                stream_pc>>
connVars == <<client, fs_dir, fs_backups, conn_last, conn_count>>
vars == <<splitVars, chunkVars, ingestVars, scoreVars, storeVars, streamVars,
          connVars>>

---------------------------------------------------------------------------
(* Bounds of the model *)

MaxRawLen == 5      \* longest text handed to the step-wise splitter
MaxChars == 3       \* largest policy.max_chars
MaxOverlap == 2     \* largest policy.overlap
MaxBlockLen == 3    \* longest text of one content block
MaxBlocks == 2      \* most content blocks of one parsed document

(* Program constants *)

CHUNK_SIZE == 800
CHUNK_OVERLAP == 120
BoundaryWindow == 100

---------------------------------------------------------------------------
(* Characters and strings *)

\* "a" is any ordinary character, "." a half-width sentence end, "\n" a
\* newline: whitespace for str.strip(), and doubled the blank-line marker.
Alphabet == {"a", ".", "\n"}
Whitespace == {"\n"}

Min(a, b) == IF a <= b THEN a ELSE b
Max(a, b) == IF a >= b THEN a ELSE b
Abs(a) == IF a >= 0 THEN a ELSE 0 - a

\* All sequences over S of length 0..n.
SeqsUpTo(S, n) == UNION {[1..k -> S] : k \in 0..n}

\* Python text[a:b] for 0 <= a, 0 <= b (b is clamped to len(text)).
Slice(text, a, b) == SubSeq(text, a + 1, Min(b, Len(text)))

\* F(x) with x evaluated once, whatever the evaluation strategy.
Eager(x, F(_)) == CHOOSE r \in {F(v) : v \in {x}} : TRUE

\* Python str.strip(): drop leading and trailing whitespace.
Strip(t) ==
    LET kept == {i \in 1..Len(t) : t[i] \notin Whitespace}
    IN  IF kept = {} THEN <<>>
        ELSE SubSeq(t, CHOOSE i \in kept : \A j \in kept : i <= j,
                       CHOOSE i \in kept : \A j \in kept : j <= i)

\* Python text.rfind(sub, lo, hi): the highest index p with lo <= p,
\* p + len(sub) <= hi and text[p:p+len(sub)] == sub, else -1.
RFind(text, sub, lo, hi) ==
    LET hits == {p \in lo..(hi - Len(sub)) :
                    Slice(text, p, p + Len(sub)) = sub}
    IN  IF hits = {} THEN 0 - 1
        ELSE CHOOSE p \in hits : \A q \in hits : q <= p

---------------------------------------------------------------------------
(* TextChunker *)

\* TextChunker.__init__: `x or default` takes the default for a falsy x.
\* Every caller passes an integer, for which falsy is 0.
OrDefault(x, default) == IF x = 0 THEN default ELSE x

ChunkerInit(chunk_size, overlap) ==
    [chunk_size |-> OrDefault(chunk_size, CHUNK_SIZE),
     overlap    |-> OrDefault(overlap, CHUNK_OVERLAP)]

\* The sentence endings of _find_sentence_boundary, in its order.  Only "."
\* and the blank line are spelled with characters of Alphabet.
sentence_endings ==
    << <<"cjk_period">>, <<"cjk_exclamation">>, <<"cjk_question">>,
       <<".">>, <<"!">>, <<"?">>, <<"\n", "\n">> >>

\* One pass of the `for ending in sentence_endings` loop, from ending i on.
\* BoundaryScanWeak is a faulty variant that takes a boundary as near as
\* the best so far (<= for <).
RECURSIVE BoundaryScanWeak(_, _, _, _, _, _, _)
BoundaryScanWeak(text, start, preferred_end, lo, hi, i, best_pos) ==
    IF i > Len(sentence_endings) THEN best_pos
    ELSE LET ending == sentence_endings[i]
             pos == RFind(text, ending, lo, hi)
             better == pos > start
                       /\ Abs(pos - preferred_end) <= Abs(best_pos - preferred_end)
         IN  Eager(IF better THEN pos + Len(ending) ELSE best_pos,
                   LAMBDA b : BoundaryScanWeak(text, start, preferred_end, lo, hi,
                                  i + 1, b))

RECURSIVE BoundaryScan(_, _, _, _, _, _, _)
BoundaryScan(text, start, preferred_end, lo, hi, i, best_pos) ==
    IF i > Len(sentence_endings) THEN best_pos
    ELSE LET ending == sentence_endings[i]
             pos == RFind(text, ending, lo, hi)
             better == pos > start
                       /\ Abs(pos - preferred_end) < Abs(best_pos - preferred_end)
         IN  Eager(IF better THEN pos + Len(ending) ELSE best_pos,
                   LAMBDA b : BoundaryScan(text, start, preferred_end, lo, hi,
                                  i + 1, b))

\* TextChunker._find_sentence_boundary
FindSentenceBoundary(text, start, preferred_end) ==
    LET search_start == Max(start, preferred_end - BoundaryWindow)
        search_end == Min(Len(text), preferred_end + BoundaryWindow)
    IN  BoundaryScan(text, start, preferred_end, search_start, search_end,
                     1, preferred_end)

\* The cut position `end` of one iteration of the while loop.
SplitEnd(text, chunk_size, start) ==
    LET end == start + chunk_size
    IN  IF end < Len(text)
        THEN LET sentence_end == FindSentenceBoundary(text, start, end)
             IN  IF sentence_end > start THEN sentence_end ELSE end
        ELSE end

\* chunks after `chunk = text[start:end].strip(); if chunk: chunks.append`.
SplitAppend(chunks, text, start, end) ==
    LET chunk == Strip(Slice(text, start, end))
    IN  IF chunk # <<>> THEN Append(chunks, chunk) ELSE chunks

\* start = max(start + 1, end - self.overlap).  SplitAdvanceStuck is a
\* faulty variant without the + 1.
SplitAdvanceStuck(start, end, overlap) == Max(start, end - overlap)

SplitAdvance(start, end, overlap) == Max(start + 1, end - overlap)

\* The while loop of _split_text_with_overlap from `start` on.
RECURSIVE SplitLoop(_, _, _, _, _)
SplitLoop(text, chunk_size, overlap, start, chunks) ==
    IF ~(start < Len(text)) THEN chunks
    ELSE Eager(SplitEnd(text, chunk_size, start), LAMBDA end :
         Eager(SplitAppend(chunks, text, start, end), LAMBDA out :
             IF end >= Len(text) THEN out
             ELSE Eager(SplitAdvance(start, end, overlap), LAMBDA next :
                      SplitLoop(text, chunk_size, overlap, next, out))))

\* TextChunker._split_text_with_overlap
SplitTextWithOverlap(text, chunk_size, overlap) ==
    IF Len(text) <= chunk_size THEN <<text>>
    ELSE SplitLoop(text, chunk_size, overlap, 0, <<>>)


\* Section labels are pairs <<kind, n>>: a heading, or the label the parser
\* derives from a page, slide or paragraph number.  NoSection is "".
NoSection == <<"", 0>>

\* A TextChunk: metadata flattened to section, chunk_type, part (0 when the
\* chunk carries no "part") and num (its page, slide or paragraph, else 0).
TextChunk(index, text, section, chunk_type, part, num, end_offset) ==
    [index |-> index, text |-> text, section |-> section,
     chunk_type |-> chunk_type, part |-> part, num |-> num,
     start_offset |-> 0, end_offset |-> end_offset]

\* The chunks appended for the parts of one oversized unit, the k-th part
\* getting index base + k - 1 and part k.
PartChunks(parts, base, section, chunk_type, num) ==
    [k \in 1..Len(parts) |->
        TextChunk(base + k - 1, parts[k], section, chunk_type, k, num,
                  Len(parts[k]))]

\* One iteration of the for loop of _chunk_pdf_content: st holds the locals
\* chunks and chunk_index.
PdfStep(st, page_info, chunk_size, overlap) ==
    LET page_text == page_info.text
        page_num == page_info.num
        section == page_info.section
    IN  IF Len(page_text) <= chunk_size
        THEN [chunks |-> Append(st.chunks,
                            TextChunk(st.chunk_index, page_text, section,
                                      "page", 0, page_num, Len(page_text))),
              chunk_index |-> st.chunk_index + 1]
        ELSE Eager(SplitTextWithOverlap(page_text, chunk_size, overlap),
                   LAMBDA page_chunks :
                 [chunks |-> st.chunks \o
                                PartChunks(page_chunks, st.chunk_index, section,
                                           "page_part", page_num),
                  chunk_index |-> st.chunk_index + Len(page_chunks)])

RECURSIVE PdfFold(_, _, _, _, _)
PdfFold(content, chunk_size, overlap, i, st) ==
    IF i > Len(content) THEN st
    ELSE Eager(PdfStep(st, content[i], chunk_size, overlap),
               LAMBDA st1 : PdfFold(content, chunk_size, overlap, i + 1, st1))

\* TextChunker._chunk_pdf_content
ChunkPdfContent(content, chunk_size, overlap) ==
    PdfFold(content, chunk_size, overlap, 1,
            [chunks |-> <<>>, chunk_index |-> 0]).chunks

\* ParagraphStepNoSectionFlush is a faulty variant of ParagraphStep (below)
\* that does not save the buffer when the section changes.
ParagraphStepNoSectionFlush(st, para_info, chunk_size, overlap) ==
    LET para_text == para_info.text
        section == para_info.section
        \* a new section with a non-empty buffer: save the buffer
        flush1 == FALSE
        chunks1 == IF flush1
                   THEN Append(st.chunks,
                            TextChunk(st.chunk_index, Strip(st.current_chunk),
                                      st.current_metadata.section,
                                      st.current_metadata.chunk_type, 0,
                                      st.current_metadata.num,
                                      Len(st.current_chunk)))
                   ELSE st.chunks
        index1 == IF flush1 THEN st.chunk_index + 1 ELSE st.chunk_index
        current1 == IF flush1 THEN <<>> ELSE st.current_chunk
        meta == [section |-> section, num |-> para_info.num,
                 chunk_type |-> "paragraph"]
        over == Len(current1 \o <<"\n">> \o para_text) > chunk_size
        flush2 == over /\ current1 # <<>>
        chunks2 == IF flush2
                   THEN Append(chunks1,
                            TextChunk(index1, Strip(current1), meta.section,
                                      meta.chunk_type, 0, meta.num,
                                      Len(current1)))
                   ELSE chunks1
        index2 == IF flush2 THEN index1 + 1 ELSE index1
        long == Len(para_text) > chunk_size
        para_chunks == SplitTextWithOverlap(para_text, chunk_size, overlap)
    IN  [chunks |->
            IF over /\ long
            THEN chunks2 \o PartChunks(para_chunks, index2, meta.section,
                                       meta.chunk_type, meta.num)
            ELSE chunks2,
         chunk_index |->
            IF over /\ long THEN index2 + Len(para_chunks) ELSE index2,
         current_chunk |->
            IF over THEN (IF long THEN <<>> ELSE para_text)
            ELSE IF current1 # <<>> THEN current1 \o <<"\n">> \o para_text
            ELSE para_text,
         current_section |-> section,
         current_metadata |-> meta]

\* One iteration of the for loop of _chunk_paragraph_content: st holds the
\* locals chunks, chunk_index, current_chunk, current_section,
\* current_metadata.
ParagraphStep(st, para_info, chunk_size, overlap) ==
    LET para_text == para_info.text
        section == para_info.section
        \* a new section with a non-empty buffer: save the buffer
        flush1 == section # st.current_section /\ st.current_chunk # <<>>
        chunks1 == IF flush1
                   THEN Append(st.chunks,
                            TextChunk(st.chunk_index, Strip(st.current_chunk),
                                      st.current_metadata.section,
                                      st.current_metadata.chunk_type, 0,
                                      st.current_metadata.num,
                                      Len(st.current_chunk)))
                   ELSE st.chunks
        index1 == IF flush1 THEN st.chunk_index + 1 ELSE st.chunk_index
        current1 == IF flush1 THEN <<>> ELSE st.current_chunk
        meta == [section |-> section, num |-> para_info.num,
                 chunk_type |-> "paragraph"]
        over == Len(current1 \o <<"\n">> \o para_text) > chunk_size
        flush2 == over /\ current1 # <<>>
        chunks2 == IF flush2
                   THEN Append(chunks1,
                            TextChunk(index1, Strip(current1), meta.section,
                                      meta.chunk_type, 0, meta.num,
                                      Len(current1)))
                   ELSE chunks1
        index2 == IF flush2 THEN index1 + 1 ELSE index1
        long == Len(para_text) > chunk_size
        para_chunks == SplitTextWithOverlap(para_text, chunk_size, overlap)
    IN  [chunks |->
            IF over /\ long
            THEN chunks2 \o PartChunks(para_chunks, index2, meta.section,
                                       meta.chunk_type, meta.num)
            ELSE chunks2,
         chunk_index |->
            IF over /\ long THEN index2 + Len(para_chunks) ELSE index2,
         current_chunk |->
            IF over THEN (IF long THEN <<>> ELSE para_text)
            ELSE IF current1 # <<>> THEN current1 \o <<"\n">> \o para_text
            ELSE para_text,
         current_section |-> section,
         current_metadata |-> meta]

RECURSIVE ParagraphFold(_, _, _, _, _)
ParagraphFold(content, chunk_size, overlap, i, st) ==
    IF i > Len(content) THEN st
    ELSE Eager(ParagraphStep(st, content[i], chunk_size, overlap),
               LAMBDA st1 : ParagraphFold(content, chunk_size, overlap,
                                          i + 1, st1))

\* TextChunker._chunk_paragraph_content
ChunkParagraphContent(content, chunk_size, overlap) ==
    LET st0 == [chunks |-> <<>>, chunk_index |-> 0, current_chunk |-> <<>>,
                current_section |-> NoSection,
                current_metadata |-> [section |-> NoSection, num |-> 0,
                                      chunk_type |-> ""]]
        st == ParagraphFold(content, chunk_size, overlap, 1, st0)
    IN  IF st.current_chunk # <<>>
        THEN Append(st.chunks,
                 TextChunk(st.chunk_index, Strip(st.current_chunk),
                           st.current_metadata.section,
                           st.current_metadata.chunk_type, 0,
                           st.current_metadata.num, Len(st.current_chunk)))
        ELSE st.chunks

\* One iteration of the for loop of _chunk_slide_content: i is enumerate's
\* index of the slide (0-based), chunks the list built so far.
SlideStep(chunks, i, slide_info, chunk_size, overlap) ==
    LET slide_text == slide_info.text
        slide_num == slide_info.num
        section == slide_info.section
    IN  IF Len(slide_text) <= chunk_size
        THEN Append(chunks, TextChunk(i, slide_text, section, "slide", 0,
                                      slide_num, Len(slide_text)))
        ELSE \* index=len(chunks) at each append
             Eager(SplitTextWithOverlap(slide_text, chunk_size, overlap),
                   LAMBDA slide_chunks :
                 chunks \o PartChunks(slide_chunks, Len(chunks), section,
                                      "slide_part", slide_num))

RECURSIVE SlideFold(_, _, _, _, _)
SlideFold(content, chunk_size, overlap, k, chunks) ==
    IF k > Len(content) THEN chunks
    ELSE Eager(SlideStep(chunks, k - 1, content[k], chunk_size, overlap),
               LAMBDA chunks1 : SlideFold(content, chunk_size, overlap,
                                          k + 1, chunks1))

\* TextChunker._chunk_slide_content
ChunkSlideContent(content, chunk_size, overlap) ==
    SlideFold(content, chunk_size, overlap, 1, <<>>)

\* One iteration of the for loop of _chunk_markdown_content: st holds the
\* locals chunks and chunk_index.
MarkdownStep(st, section_info, chunk_size, overlap) ==
    LET section_text == section_info.text
        section_name == section_info.section
    IN  IF Len(section_text) <= chunk_size
        THEN [chunks |-> Append(st.chunks,
                            TextChunk(st.chunk_index, section_text,
                                      section_name, "section", 0, 0,
                                      Len(section_text))),
              chunk_index |-> st.chunk_index + 1]
        ELSE Eager(SplitTextWithOverlap(section_text, chunk_size, overlap),
                   LAMBDA section_chunks :
                 [chunks |-> st.chunks \o
                                PartChunks(section_chunks, st.chunk_index,
                                           section_name, "section_part", 0),
                  chunk_index |-> st.chunk_index + Len(section_chunks)])

RECURSIVE MarkdownFold(_, _, _, _, _)
MarkdownFold(content, chunk_size, overlap, i, st) ==
    IF i > Len(content) THEN st
    ELSE Eager(MarkdownStep(st, content[i], chunk_size, overlap),
               LAMBDA st1 : MarkdownFold(content, chunk_size, overlap,
                                         i + 1, st1))

\* TextChunker._chunk_markdown_content
ChunkMarkdownContent(content, chunk_size, overlap) ==
    MarkdownFold(content, chunk_size, overlap, 1,
                 [chunks |-> <<>>, chunk_index |-> 0]).chunks

\* TextChunker._chunk_raw_text: section is the label of block i + 1.
ChunkRawText(text, chunk_size, overlap) ==
    Eager(SplitTextWithOverlap(text, chunk_size, overlap), LAMBDA text_chunks :
        [k \in 1..Len(text_chunks) |->
            TextChunk(k - 1, text_chunks[k], <<"block", k>>, "raw", 0, 0,
                      Len(text_chunks[k]))])

\* TextChunker.chunk_document
ChunkDocument(chunker, doc) ==
    IF doc.type = "pdf"
    THEN ChunkPdfContent(doc.content, chunker.chunk_size, chunker.overlap)
    ELSE IF doc.type \in {"docx", "txt"}
    THEN ChunkParagraphContent(doc.content, chunker.chunk_size, chunker.overlap)
    ELSE IF doc.type = "pptx"
    THEN ChunkSlideContent(doc.content, chunker.chunk_size, chunker.overlap)
    ELSE IF doc.type = "markdown"
    THEN ChunkMarkdownContent(doc.content, chunker.chunk_size, chunker.overlap)
    ELSE ChunkRawText(doc.raw_text, chunker.chunk_size, chunker.overlap)


---------------------------------------------------------------------------
(* Idle values of the variables a specification does not use *)

InitIngestIdle ==
    /\ tasks = <<>>
    /\ documents = <<>>
    /\ chunk_rows = <<>>
    /\ collections = <<>>
    /\ connected = FALSE
    /\ jobs = <<>>

InitScoreIdle ==
    /\ q_search_results = <<>>
    /\ q_chunk_details = <<>>
    /\ q_answer = <<>>
    /\ q_confidence = [num |-> 0, den |-> 1]
    /\ q_pc = "idle"
    /\ q_final_results = <<>>
    /\ q_rerank_calls = 0
    /\ q_rerank_answer = [kind |-> "not_called", indexes |-> <<>>]
    /\ q_distances = <<>>
    /\ q_citations = <<>>
    /\ q_llm_calls = 0
    /\ q_response = [qa_id |-> <<>>, followups |-> "none"]
    /\ qa_logs = <<>>

InitStoreIdle ==
    /\ store_op = [op |-> "none", course_id |-> <<>>, vectors |-> <<>>,
                   document_id |-> <<>>]
    /\ store_before = [collections |-> <<>>, connected |-> FALSE]

InitStreamIdle ==
    /\ stream_message = <<>>
    /\ stream_script = [chunks |-> <<>>, raises |-> FALSE]
    /\ stream_events = <<>>
    /\ stream_pending = <<>>
    /\ stream_pc = "idle"

InitConnIdle ==
    /\ client = <<>>
    /\ fs_dir = "absent"
    /\ fs_backups = <<>>
    /\ conn_last = [op |-> "none"]
    /\ conn_count = 0

---------------------------------------------------------------------------
(* The overlap splitter, one loop iteration per step *)

Policies ==
    [max_chars : 1..MaxChars, overlap : 0..MaxOverlap]

InitSplitIdle ==
    /\ s_text = <<>>
    /\ s_chunk_size = 0
    /\ s_overlap = 0
    /\ s_start = 0
    /\ s_chunks = <<>>
    /\ s_pc = "idle"
    /\ s_policy = [max_chars |-> 0, overlap |-> 0]

InitChunkIdle ==
    /\ parsed_doc = [type |-> "none", content |-> <<>>, raw_text |-> <<>>]
    /\ policy = [max_chars |-> 0, overlap |-> 0]
    /\ doc_chunks = <<>>
    /\ c_pc = "idle"

InitSplit ==
    /\ InitSplitIdle
    /\ InitChunkIdle
    /\ InitIngestIdle
    /\ InitScoreIdle
    /\ InitStoreIdle
    /\ InitStreamIdle
    /\ InitConnIdle

\* TextChunker(p.max_chars, p.overlap)._split_text_with_overlap(text), lines
\* 273-277: the early return, or entry into the loop.
SplitCall ==
    /\ s_pc = "idle"
    /\ \E text \in SeqsUpTo(Alphabet, MaxRawLen), p \in Policies :
          LET chunker == ChunkerInit(p.max_chars, p.overlap)
          IN  /\ s_text' = text
              /\ s_policy' = p
              /\ s_chunk_size' = chunker.chunk_size
              /\ s_overlap' = chunker.overlap
              /\ IF Len(text) <= chunker.chunk_size
                 THEN /\ s_chunks' = <<text>>
                      /\ s_pc' = "done"
                 ELSE /\ s_chunks' = <<>>
                      /\ s_pc' = "loop"
    /\ s_start' = 0
    /\ UNCHANGED <<chunkVars, ingestVars, scoreVars, storeVars, streamVars,
                   connVars>>

\* Lines 279-297: one iteration of `while start < len(text)`.
SplitIterate ==
    /\ s_pc = "loop"
    /\ s_start < Len(s_text)
    /\ \E end \in {SplitEnd(s_text, s_chunk_size, s_start)} :
           /\ s_chunks' = SplitAppend(s_chunks, s_text, s_start, end)
           /\ IF end >= Len(s_text)
              THEN /\ s_pc' = "done"
                   /\ s_start' = s_start
              ELSE /\ s_pc' = "loop"
                   /\ s_start' = SplitAdvance(s_start, end, s_overlap)
    /\ UNCHANGED <<s_text, s_chunk_size, s_overlap, s_policy, chunkVars,
                   ingestVars, scoreVars, storeVars, streamVars,
                   connVars>>

\* The loop is only ever left through the break of line 295: start < end <
\* len(text) holds whenever line 297 is reached, so the condition of line 279
\* is true at every test.
NextSplit == SplitCall \/ SplitIterate

SpecSplit == InitSplit /\ [][NextSplit]_vars

\* The loop body runs to completion once called: nothing suspends it.
FairSpecSplit == SpecSplit /\ WF_vars(NextSplit)

---------------------------------------------------------------------------
(* chunk_document on a parsed document *)

\* Texts of content blocks as DocumentParser leaves them: stripped, not empty.
\* Blocks are spelled with letters and newlines; sentence ends occur in the
\* raw texts.
BlockAlphabet == {"a", "\n"}

BlockTexts ==
    {t \in SeqsUpTo(BlockAlphabet, MaxBlockLen) : t # <<>> /\ Strip(t) = t}

\* The section labels of the blocks of a document, by its type: headings
\* for docx (parser.py:85-89), else derived from the block's position.
Headings == {<<"heading", 1>>, <<"heading", 2>>}

SectionsFor(type, n) ==
    IF type = "docx" THEN [1..n -> Headings]
    ELSE {[k \in 1..n |-> <<type, k>>]}

ContentsFor(type) ==
    UNION {
        {[k \in 1..n |-> [text |-> texts[k], section |-> secs[k], num |-> k]] :
            texts \in [1..n -> BlockTexts], secs \in SectionsFor(type, n)}
        : n \in 0..MaxBlocks}

StructuredTypes == {"pdf", "docx", "txt", "pptx", "markdown"}

ParsedDocs ==
    UNION {{[type |-> ty, content |-> c, raw_text |-> <<>>] :
               c \in ContentsFor(ty)} : ty \in StructuredTypes}
    \cup {[type |-> "unknown", content |-> <<>>, raw_text |-> t] :
             t \in SeqsUpTo(Alphabet, MaxRawLen)}

InitChunk ==
    /\ parsed_doc \in ParsedDocs
    /\ policy \in Policies
    /\ doc_chunks = <<>>
    /\ c_pc = "call"
    /\ InitSplitIdle
    /\ InitIngestIdle
    /\ InitScoreIdle
    /\ InitStoreIdle
    /\ InitStreamIdle
    /\ InitConnIdle

\* TextChunker(chunk_size=policy.max_chars, overlap=policy.overlap)
\*    .chunk_document(parsed_doc)
ChunkDocumentCall ==
    /\ c_pc = "call"
    /\ \E chunker \in {ChunkerInit(policy.max_chars, policy.overlap)} :
          doc_chunks' = ChunkDocument(chunker, parsed_doc)
    /\ c_pc' = "done"
    /\ UNCHANGED <<parsed_doc, policy, splitVars, ingestVars, scoreVars,
                   storeVars, streamVars,
                   connVars>>

NextChunk == ChunkDocumentCall

SpecChunk == InitChunk /\ [][NextChunk]_vars


---------------------------------------------------------------------------
(* Document ingestion: KBService.ingest_document and the background job   *)
(* _ingest_document_task.  A step of a job is the code between two        *)
(* commits; progress is kept in tenths (0.1 is 1, 1.0 is 10).             *)

MaxTasks == 2       \* most ingestion requests of one execution

EMBEDDING_BATCH_SIZE == 32

\* Optional values: None, or a sequence holding the value.
None == <<>>
Some(x) == <<x>>

\* str(n) of a natural number: its decimal digits.
RECURSIVE Str(_)
Str(n) == IF n < 10 THEN <<n>> ELSE Append(Str(n \div 10), n % 10)

\* The files of the uploaded documents as DocumentParser.parse_file reads
\* them: a pdf of two pages and a pptx of two slides.
StoredFiles ==
    << [type |-> "pdf",
        content |-> << [text |-> <<"a", "a">>, section |-> <<"pdf", 1>>, num |-> 1],
                       [text |-> <<"a">>, section |-> <<"pdf", 2>>, num |-> 2] >>,
        raw_text |-> <<>>],
       [type |-> "pptx",
        content |-> << [text |-> <<"a", "a">>, section |-> <<"pptx", 1>>, num |-> 1],
                       [text |-> <<"a">>, section |-> <<"pptx", 2>>, num |-> 2] >>,
        raw_text |-> <<>>] >>

\* Document rows after upload_document: document d belongs to course d.
UploadedDocuments ==
    [d \in DOMAIN StoredFiles |->
        [course_id |-> d, file_type |-> StoredFiles[d].type,
         status |-> "uploaded"]]

\* The document ids a request may name: the uploaded ones and one that has
\* no row.
RequestedDocumentIds == 1..(Len(StoredFiles) + 1)

\* The chunk_policy argument: None, or a ChunkPolicy that splits the
\* stored files into single characters, or one that overlaps.
ChunkPolicies ==
    {None, Some([max_chars |-> 1, overlap |-> 0]),
     Some([max_chars |-> 2, overlap |-> 1])}

\* IngestTask(task_id, document_id, status="queued"), the column defaults
\* filling progress and error_message.  NewIngestTaskProcessing is a faulty
\* variant that creates the task as processing.
NewIngestTaskProcessing(document_id) ==
    [document_id |-> document_id, status |-> "processing", progress |-> 0,
     error_message |-> None]

NewIngestTask(document_id) ==
    [document_id |-> document_id, status |-> "queued", progress |-> 0,
     error_message |-> None]

\* The locals of a job that has not run yet.
NewJob(document_id, chunk_policy) ==
    [pc |-> "created", document_id |-> document_id,
     chunk_policy |-> chunk_policy,
     parsed_doc |-> [type |-> "none", content |-> <<>>, raw_text |-> <<>>],
     chunks |-> <<>>, embeddings |-> <<>>, vector_records |-> <<>>]

\* `task.progress = p; db.commit()`
SetProgress(task, p) == [task EXCEPT !.progress = p]

\* The except block, lines 211-214.  HandlerTaskReset is a faulty variant
\* that also loses the progress.
HandlerTaskReset(task, e) ==
    [task EXCEPT !.status = "failed", !.error_message = Some(e),
                 !.progress = 0]

HandlerTask(task, e) ==
    [task EXCEPT !.status = "failed", !.error_message = Some(e)]

\* The except block, lines 217-219, for a document that was loaded: None
\* (no such row) is falsy.  HandlerDocumentAll is a faulty variant that
\* fails every document in the table.
HandlerDocumentAll(docs, document_id) ==
    [d \in DOMAIN docs |-> [docs[d] EXCEPT !.status = "failed"]]

HandlerDocument(docs, document_id) ==
    IF document_id \in DOMAIN docs
    THEN [docs EXCEPT ![document_id].status = "failed"]
    ELSE docs

\* The chunker of lines 150-153.
JobChunker(chunk_policy) ==
    IF chunk_policy # None
    THEN ChunkerInit(chunk_policy[1].max_chars, chunk_policy[1].overlap)
    ELSE ChunkerInit(CHUNK_SIZE, CHUNK_OVERLAP)

\* client.embeddings.create(input=batch_texts): the provider answers with
\* one embedding per input text, in order.  An embedding is identified by
\* the text it embeds.
EmbeddingsCreate(batch_texts) ==
    [k \in 1..Len(batch_texts) |-> <<"embedding", batch_texts[k]>>]

\* The batch loop of get_embeddings_batch from offset i on.
RECURSIVE EmbeddingBatches(_, _, _, _)
EmbeddingBatches(truncated_texts, batch_size, i, results) ==
    IF i >= Len(truncated_texts) THEN results
    ELSE Eager(EmbeddingsCreate(Slice(truncated_texts, i, i + batch_size)),
               LAMBDA data :
                 EmbeddingBatches(truncated_texts, batch_size, i + batch_size,
                     results \o [k \in 1..Len(data) |->
                                    [embedding |-> data[k]]]))

\* SiliconFlowClient.get_embeddings_batch
GetEmbeddingsBatch(texts) ==
    LET truncated_texts == [k \in 1..Len(texts) |-> Slice(texts[k], 0, 400)]
        batch_size == Min(EMBEDDING_BATCH_SIZE, 16)
    IN  EmbeddingBatches(truncated_texts, batch_size, 0, <<>>)

\* The id the database gives the next Chunk row.
NextChunkId(rows) ==
    IF rows = <<>> THEN 1
    ELSE 1 + (CHOOSE m \in {rows[k].id : k \in 1..Len(rows)} :
                 \A k \in 1..Len(rows) : rows[k].id <= m)

\* chunk.metadata.get("page", 0): only the chunks of a pdf carry a page.
PageOf(chunk) ==
    IF chunk.chunk_type \in {"page", "page_part"} THEN chunk.num ELSE 0

\* One iteration of the loop of lines 171-193: st holds the rows of the
\* session (committed and flushed) and the local vector_records.
PersistStep(st, chunk, embedding_result, document_id, course_id) ==
    LET chunk_record == [id |-> NextChunkId(st.rows),
                         document_id |-> document_id,
                         course_id |-> course_id,
                         chunk_index |-> chunk.index,
                         chunk_text |-> chunk.text,
                         meta_json |-> [section |-> chunk.section]]
        vector_record == [chunk_id |-> Str(chunk_record.id),
                          course_id |-> Str(course_id),
                          document_id |-> Str(document_id),
                          section |-> chunk.section,
                          page |-> PageOf(chunk),
                          chunk_text |-> Slice(chunk.text, 0, 2000),
                          embedding |-> embedding_result.embedding]
    IN  [rows |-> Append(st.rows, chunk_record),
         vector_records |-> Append(st.vector_records, vector_record)]

\* The loop over zip(chunks, embeddings), which stops at the shorter list.
RECURSIVE PersistFold(_, _, _, _, _, _)
PersistFold(chunks, embeddings, document_id, course_id, i, st) ==
    IF i > Min(Len(chunks), Len(embeddings)) THEN st
    ELSE Eager(PersistStep(st, chunks[i], embeddings[i], document_id, course_id),
               LAMBDA st1 :
                 PersistFold(chunks, embeddings, document_id, course_id,
                             i + 1, st1))

\* ChromaAdapter._get_collection_name
CollectionName(course_id) == <<"chunks_", course_id>>

\* ChromaAdapter.get_collection: the collection of the course, created empty
\* when it does not exist.
GetCollection(cols, course_id) ==
    IF CollectionName(course_id) \in DOMAIN cols THEN cols
    ELSE [n \in DOMAIN cols \cup {CollectionName(course_id)} |->
             IF n \in DOMAIN cols THEN cols[n] ELSE <<>>]

\* collection.upsert(ids, documents, metadatas, embeddings): a record per id,
\* the last one given for it.  CollectionUpsertNothing is a faulty variant
\* that stores nothing.
CollectionUpsertNothing(collection, vectors) == collection

CollectionUpsert(collection, vectors) ==
    LET ids == {vectors[k].chunk_id : k \in 1..Len(vectors)}
        last(id) == CHOOSE k \in 1..Len(vectors) :
                        /\ vectors[k].chunk_id = id
                        /\ \A m \in (k + 1)..Len(vectors) :
                               vectors[m].chunk_id # id
    IN  [id \in DOMAIN collection \cup ids |->
            IF id \in ids
            THEN [document |-> vectors[last(id)].chunk_text,
                  metadata |-> [course_id |-> vectors[last(id)].course_id,
                                document_id |-> vectors[last(id)].document_id,
                                section |-> vectors[last(id)].section,
                                page |-> vectors[last(id)].page],
                  embedding |-> vectors[last(id)].embedding]
            ELSE collection[id]]

\* ChromaAdapter.connected after get_collection: init_connection is called
\* when the adapter is not connected yet.
GetCollectionConnected(conn) == TRUE

\* ChromaAdapter.connected after upsert: the empty list returns before
\* get_collection.  UpsertConnectedAlways is a faulty variant that opens the
\* connection first.
UpsertConnectedAlways(conn, vectors) == GetCollectionConnected(conn)

UpsertConnected(conn, vectors) ==
    IF vectors = <<>> THEN conn ELSE GetCollectionConnected(conn)

\* ChromaAdapter.upsert
Upsert(cols, course_id, vectors) ==
    IF vectors = <<>> THEN cols
    ELSE LET got == GetCollection(cols, course_id)
             name == CollectionName(course_id)
         IN  [got EXCEPT ![name] = CollectionUpsert(got[name], vectors)]

InitIngest ==
    /\ tasks = <<>>
    /\ documents = UploadedDocuments
    /\ chunk_rows = <<>>
    /\ collections = <<>>
    /\ connected = FALSE
    /\ jobs = <<>>
    /\ InitSplitIdle
    /\ InitChunkIdle
    /\ InitScoreIdle
    /\ InitStoreIdle
    /\ InitStreamIdle
    /\ InitConnIdle

\* KBService.ingest_document: the task row is committed, then the job is
\* handed to the event loop and the task_id (the row's position) returned.
IngestDocument ==
    /\ Len(tasks) < MaxTasks
    /\ \E document_id \in RequestedDocumentIds, chunk_policy \in ChunkPolicies :
          /\ tasks' = Append(tasks, NewIngestTask(document_id))
          /\ jobs' = Append(jobs, NewJob(document_id, chunk_policy))
    /\ UNCHANGED <<documents, chunk_rows, collections, connected,
                   splitVars, chunkVars, scoreVars, storeVars, streamVars,
                   connVars>>

\* Lines 119-128: the task is loaded and committed as processing, 0.1.  The
\* row ingest_document committed is never deleted, so the `return` of line
\* 124 is not taken.
JobStart(t) ==
    /\ jobs[t].pc = "created"
    /\ tasks' = [tasks EXCEPT
                    ![t] = SetProgress([@ EXCEPT !.status = "processing"], 1)]
    /\ jobs' = [jobs EXCEPT ![t].pc = "started"]
    /\ UNCHANGED <<documents, chunk_rows, collections, connected,
                   splitVars, chunkVars, scoreVars, storeVars, streamVars,
                   connVars>>

\* Line 122 raises (the database cannot be read): `task` is still unbound
\* when the except block tests it, line 211 raises UnboundLocalError and the
\* job ends with nothing written.
TaskQueryRaises(t) ==
    /\ jobs[t].pc = "created"
    /\ jobs' = [jobs EXCEPT ![t].pc = "crashed"]
    /\ UNCHANGED <<tasks, documents, chunk_rows, collections, connected,
                   splitVars, chunkVars, scoreVars, storeVars, streamVars,
                   connVars>>

\* Lines 131-146: the document is loaded and parsed, the parsed file written,
\* progress 0.3 committed.
LoadAndParse(t) ==
    /\ jobs[t].pc = "started"
    /\ jobs[t].document_id \in DOMAIN documents
    /\ jobs' = [jobs EXCEPT ![t].pc = "parsed",
                            ![t].parsed_doc = StoredFiles[jobs[t].document_id]]
    /\ tasks' = [tasks EXCEPT ![t] = SetProgress(@, 3)]
    /\ UNCHANGED <<documents, chunk_rows, collections, connected,
                   splitVars, chunkVars, scoreVars, storeVars, streamVars,
                   connVars>>

\* Line 131 raises: the except block fails the task and commits, then line
\* 217 tests the unbound `document` and raises UnboundLocalError.
DocumentQueryRaises(t) ==
    /\ jobs[t].pc = "started"
    /\ tasks' = [tasks EXCEPT ![t] = HandlerTask(@, "document query failed")]
    /\ jobs' = [jobs EXCEPT ![t].pc = "crashed"]
    /\ UNCHANGED <<documents, chunk_rows, collections, connected,
                   splitVars, chunkVars, scoreVars, storeVars, streamVars,
                   connVars>>

\* Lines 132-133: no such document; the except block fails the task, and
\* `document` is None.
DocumentMissing(t) ==
    /\ jobs[t].pc = "started"
    /\ jobs[t].document_id \notin DOMAIN documents
    /\ tasks' = [tasks EXCEPT ![t] = HandlerTask(@, "document not found")]
    /\ documents' = HandlerDocument(documents, jobs[t].document_id)
    /\ jobs' = [jobs EXCEPT ![t].pc = "failed"]
    /\ UNCHANGED <<chunk_rows, collections, connected,
                   splitVars, chunkVars, scoreVars, storeVars, streamVars,
                   connVars>>

\* Lines 137-143 raise (parse_file, or writing the parsed file).
ParseRaises(t) ==
    /\ jobs[t].pc = "started"
    /\ jobs[t].document_id \in DOMAIN documents
    /\ tasks' = [tasks EXCEPT ![t] = HandlerTask(@, "parse failed")]
    /\ documents' = HandlerDocument(documents, jobs[t].document_id)
    /\ jobs' = [jobs EXCEPT ![t].pc = "failed"]
    /\ UNCHANGED <<chunk_rows, collections, connected,
                   splitVars, chunkVars, scoreVars, storeVars, streamVars,
                   connVars>>

\* Lines 150-157: chunking, progress 0.5 committed.
Chunking(t) ==
    /\ jobs[t].pc = "parsed"
    /\ \E chunker \in {JobChunker(jobs[t].chunk_policy)} :
          jobs' = [jobs EXCEPT
                      ![t].pc = "chunked",
                      ![t].chunks = ChunkDocument(chunker, jobs[t].parsed_doc)]
    /\ tasks' = [tasks EXCEPT ![t] = SetProgress(@, 5)]
    /\ UNCHANGED <<documents, chunk_rows, collections, connected,
                   splitVars, chunkVars, scoreVars, storeVars, streamVars,
                   connVars>>

\* Lines 161-165: embedding, progress 0.7 committed.
Embedding(t) ==
    /\ jobs[t].pc = "chunked"
    /\ LET chunk_texts == [k \in 1..Len(jobs[t].chunks) |->
                              jobs[t].chunks[k].text]
       IN  jobs' = [jobs EXCEPT
                       ![t].pc = "embedded",
                       ![t].embeddings = GetEmbeddingsBatch(chunk_texts)]
    /\ tasks' = [tasks EXCEPT ![t] = SetProgress(@, 7)]
    /\ UNCHANGED <<documents, chunk_rows, collections, connected,
                   splitVars, chunkVars, scoreVars, storeVars, streamVars,
                   connVars>>

\* Line 162 raises LLMException.
EmbeddingRaises(t) ==
    /\ jobs[t].pc = "chunked"
    /\ tasks' = [tasks EXCEPT ![t] = HandlerTask(@, "embedding failed")]
    /\ documents' = HandlerDocument(documents, jobs[t].document_id)
    /\ jobs' = [jobs EXCEPT ![t].pc = "failed"]
    /\ UNCHANGED <<chunk_rows, collections, connected,
                   splitVars, chunkVars, scoreVars, storeVars, streamVars,
                   connVars>>

\* The rows and vector records of lines 169-193 for job t.
Persisted(t) ==
    PersistFold(jobs[t].chunks, jobs[t].embeddings, jobs[t].document_id,
                documents[jobs[t].document_id].course_id, 1,
                [rows |-> chunk_rows, vector_records |-> <<>>])

\* Lines 169-203: rows added and flushed, vectors upserted, document ready,
\* task done with progress 1.0, one commit.
Persist(t) ==
    /\ jobs[t].pc = "embedded"
    /\ \E st \in {Persisted(t)} :
          /\ chunk_rows' = st.rows
          /\ collections' =
                Upsert(collections,
                       Str(documents[jobs[t].document_id].course_id),
                       st.vector_records)
          /\ connected' = UpsertConnected(connected, st.vector_records)
          /\ jobs' = [jobs EXCEPT ![t].pc = "finished",
                                  ![t].vector_records = st.vector_records]
    /\ documents' = [documents EXCEPT ![jobs[t].document_id].status = "ready"]
    /\ tasks' = [tasks EXCEPT
                    ![t] = SetProgress([@ EXCEPT !.status = "done"], 10)]
    /\ UNCHANGED <<splitVars, chunkVars, scoreVars, storeVars, streamVars,
                   connVars>>

\* Line 196 raises VectorDBException: the commit of line 214 writes the
\* failed task together with the rows the loop flushed.
UpsertRaises(t) ==
    /\ jobs[t].pc = "embedded"
    /\ \E st \in {Persisted(t)} :
          /\ st.vector_records # <<>>
          /\ chunk_rows' = st.rows
          /\ jobs' = [jobs EXCEPT ![t].pc = "failed",
                                  ![t].vector_records = st.vector_records]
    /\ tasks' = [tasks EXCEPT ![t] = HandlerTask(@, "upsert failed")]
    /\ documents' = HandlerDocument(documents, jobs[t].document_id)
    /\ UNCHANGED <<collections, connected,
                   splitVars, chunkVars, scoreVars, storeVars, streamVars,
                   connVars>>

\* The commit of line 203 raises after the upsert: the transaction with the
\* rows, the ready document and the done task is lost, the vectors stay.
\* What the session allows next is decided outside this repository; either
\* the commit of line 214 goes through ...
FinalCommitRaisesHandled(t) ==
    /\ jobs[t].pc = "embedded"
    /\ \E st \in {Persisted(t)} :
          /\ collections' =
                Upsert(collections,
                       Str(documents[jobs[t].document_id].course_id),
                       st.vector_records)
          /\ connected' = UpsertConnected(connected, st.vector_records)
          /\ jobs' = [jobs EXCEPT ![t].pc = "failed",
                                  ![t].vector_records = st.vector_records]
    /\ tasks' = [tasks EXCEPT ![t] = HandlerTask(@, "commit failed")]
    /\ documents' = HandlerDocument(documents, jobs[t].document_id)
    /\ UNCHANGED <<chunk_rows, splitVars, chunkVars, scoreVars, storeVars, streamVars,
                   connVars>>

\* ... or it raises as well, and the exception leaves the job.
FinalCommitRaisesUnhandled(t) ==
    /\ jobs[t].pc = "embedded"
    /\ \E st \in {Persisted(t)} :
          /\ collections' =
                Upsert(collections,
                       Str(documents[jobs[t].document_id].course_id),
                       st.vector_records)
          /\ connected' = UpsertConnected(connected, st.vector_records)
          /\ jobs' = [jobs EXCEPT ![t].pc = "crashed",
                                  ![t].vector_records = st.vector_records]
    /\ UNCHANGED <<tasks, documents, chunk_rows, splitVars, chunkVars, scoreVars,
                   storeVars, streamVars,
                   connVars>>

NextIngest ==
    \/ IngestDocument
    \/ \E t \in 1..Len(jobs) :
          \/ JobStart(t)
          \/ TaskQueryRaises(t)
          \/ LoadAndParse(t)
          \/ DocumentQueryRaises(t)
          \/ DocumentMissing(t)
          \/ ParseRaises(t)
          \/ Chunking(t)
          \/ Embedding(t)
          \/ EmbeddingRaises(t)
          \/ Persist(t)
          \/ UpsertRaises(t)
          \/ FinalCommitRaisesHandled(t)
          \/ FinalCommitRaisesUnhandled(t)

SpecIngest == InitIngest /\ [][NextIngest]_vars

---------------------------------------------------------------------------
(* Question answering: RAGService.ask_question and the confidence scorer. *)
(* Distances and retrieval scores are kept in tenths (0.8 is 8); a        *)
(* confidence is an exact fraction [num, den] with den > 0.               *)

MaxPieces == 3      \* most pieces an answer text is put together from
MaxEvidence == 2    \* longest evidence list handed to the scorer directly

TOP_K == 12
RERANK_TOP_N == 6

\* Fractions.
Rat(n, d) == [num |-> n, den |-> d]
RatLess(x, y) == x.num * y.den < y.num * x.den
RatLeq(x, y) == x.num * y.den <= y.num * x.den
RatEq(x, y) == x.num * y.den = y.num * x.den
RatMin(x, y) == IF RatLeq(x, y) THEN x ELSE y
RatMax(x, y) == IF RatLeq(y, x) THEN x ELSE y

\* int(s) of a string of decimal digits, the inverse of str.
RECURSIVE IntOfDigits(_)
IntOfDigits(digits) ==
    IF digits = <<>> THEN 0
    ELSE 10 * IntOfDigits(SubSeq(digits, 1, Len(digits) - 1))
         + digits[Len(digits)]

\* The characters of an answer text that match \d, and their values.
DigitChars == {"0", "1", "2", "3", "4", "5", "6", "7", "8", "9"}

DigitValue(c) ==
    CASE c = "0" -> 0 [] c = "1" -> 1 [] c = "2" -> 2 [] c = "3" -> 3
      [] c = "4" -> 4 [] c = "5" -> 5 [] c = "6" -> 6 [] c = "7" -> 7
      [] c = "8" -> 8 [] c = "9" -> 9

\* int(num_str) of a match of \d+
RECURSIVE IntOf(_)
IntOf(num_str) ==
    IF num_str = <<>> THEN 0
    ELSE 10 * IntOf(SubSeq(num_str, 1, Len(num_str) - 1))
         + DigitValue(num_str[Len(num_str)])

\* The position after the run of digits that starts at position i.
RECURSIVE DigitRunEnd(_, _)
DigitRunEnd(text, i) ==
    IF i <= Len(text) /\ text[i] \in DigitChars
    THEN DigitRunEnd(text, i + 1)
    ELSE i

\* re.findall(r'\[(\d+)\]', text) from position i on (1-based): the digit
\* strings of the matches, left to right, without overlap.
RECURSIVE FindAllCitations(_, _, _)
FindAllCitations(text, i, found) ==
    IF i > Len(text) THEN found
    ELSE IF text[i] = "["
         THEN Eager(DigitRunEnd(text, i + 1), LAMBDA j :
                IF j > i + 1 /\ j <= Len(text) /\ text[j] = "]"
                THEN FindAllCitations(text, j + 1,
                         Append(found, SubSeq(text, i + 1, j - 1)))
                ELSE FindAllCitations(text, i + 1, found))
         ELSE FindAllCitations(text, i + 1, found)

\* `sub in text`
Contains(text, sub) ==
    \E i \in 0..(Len(text) - Len(sub)) :
        SubSeq(text, i + 1, i + Len(sub)) = sub

\* The refusal keywords of _calculate_confidence, a character per syllable.
refusal_keywords ==
    { <<"zheng", "ju", "bu", "zu">>, <<"wu", "fa", "que", "ding">>,
      <<"bu", "neng", "que", "ding">>, <<"xin", "xi", "bu", "gou">>,
      <<"xu", "yao", "geng", "duo">> }

RefusalFlag(answer) == \E keyword \in refusal_keywords : Contains(answer, keyword)

\* sum(detail.get("score", 0) for detail in chunk_details): every evidence
\* item carries a score.
RECURSIVE SumScores(_)
SumScores(chunk_details) ==
    IF chunk_details = <<>> THEN 0
    ELSE chunk_details[1].score + SumScores(Tail(chunk_details))

\* max(0.0, min(1.0, confidence)).  ClampNone is a faulty variant that
\* returns confidence as it is.
ClampNone(confidence) == confidence

Clamp01(confidence) == RatMax(Rat(0, 1), RatMin(Rat(1, 1), confidence))

\* list[i] of Python: a negative index counts from the end; IndexError is
\* raised outside -len..len-1.
PyIndexValid(list, i) == 0 - Len(list) <= i /\ i < Len(list)
PyIndex(list, i) == IF i >= 0 THEN list[i + 1] ELSE list[Len(list) + i + 1]

\* The orders in which `for x in set(items)` may visit the distinct members
\* of a list: the iteration order of a set of strings is not fixed.
SetIterations(items) ==
    LET members == {items[k] : k \in 1..Len(items)}
    IN  {o \in [1..Cardinality(members) -> members] :
            \A a, b \in DOMAIN o : a # b => o[a] # o[b]}

\* Line 324: `if 1 <= num <= len(chunk_details)`.  InRangeNoLower is a
\* faulty variant without the lower bound.
InRangeNoLower(num, chunk_details) == num <= Len(chunk_details)

InRange(num, chunk_details) == 1 <= num /\ num <= Len(chunk_details)

\* Lines 325-334: the Citation of an evidence item.
CitationOf(detail) ==
    [chunk_id |-> detail.chunk_id,
     document_id |-> detail.document_id,
     section |-> detail.section,
     snippet |-> IF Len(detail.full_text) > 200
                 THEN Slice(detail.full_text, 0, 200) \o <<".", ".", ".">>
                 ELSE detail.full_text]

\* The loop of lines 320-335 over the strings of order from position k on.
RECURSIVE ExtractLoop(_, _, _, _)
ExtractLoop(chunk_details, order, k, citations) ==
    IF k > Len(order) THEN citations
    ELSE LET num == IntOf(order[k])
         IN  IF InRange(num, chunk_details)
                /\ PyIndexValid(chunk_details, num - 1)
             THEN ExtractLoop(chunk_details, order, k + 1,
                      Append(citations,
                             CitationOf(PyIndex(chunk_details, num - 1))))
             ELSE ExtractLoop(chunk_details, order, k + 1, citations)

\* RAGService._extract_citations, the set of line 320 visited in order.
ExtractCitations(chunk_details, answer, order) ==
    ExtractLoop(chunk_details, order, 1, <<>>)

\* The evidence items an answer cites, as _extract_citations selects them:
\* the distinct numbers cited that lie in 1..len(chunk_details).
CitedItems(chunk_details, answer) ==
    Cardinality({IntOf(FindAllCitations(answer, 1, <<>>)[k]) :
                    k \in 1..Len(FindAllCitations(answer, 1, <<>>))}
                \cap 1..Len(chunk_details))

\* cited_count = len(re.findall(r'\[(\d+)\]', answer))
CitedCount(chunk_details, answer) == Len(FindAllCitations(answer, 1, <<>>))

\* RAGService._calculate_confidence.  With n items of score sum S (tenths)
\* and c citations, 0.4 * avg_score + 0.4 * coverage + 0.2 is
\* (4 S + 40 min(c, n) + 20 n) / (100 n).
CalculateConfidence(chunk_details, answer) ==
    IF chunk_details = <<>> THEN Rat(0, 1)
    ELSE LET n == Len(chunk_details)
             cited_count == CitedCount(chunk_details, answer)
             base == Rat(4 * SumScores(chunk_details)
                         + 40 * Min(cited_count, n) + 20 * n, 100 * n)
             confidence == IF RefusalFlag(answer)
                           THEN Rat(base.num, 2 * base.den)
                           ELSE base
         IN  Clamp01(confidence)

\* ChromaAdapter.query, line 304: score = max(0, 1 - distance)
ScoreOf(distance) == Max(0, 10 - distance)

\* The distances the store may report for a record.
Distances == {0, 2, 10, 12}

\* The orders in which the store may return the records of a collection
\* given their distances: nearest first, ties in any order.
ResultOrders(collection, distance) ==
    {o \in [1..Cardinality(DOMAIN collection) -> DOMAIN collection] :
        /\ \A a, b \in DOMAIN o : a # b => o[a] # o[b]
        /\ \A a \in DOMAIN o : a + 1 \in DOMAIN o =>
               distance[o[a]] <= distance[o[a + 1]]}

\* The hits of ChromaAdapter.query for the first top_k records in order o.
QueryHits(collection, distance, o, top_k) ==
    [k \in 1..Min(top_k, Len(o)) |->
        [chunk_id |-> o[k],
         score |-> ScoreOf(distance[o[k]]),
         metadata |-> collection[o[k]].metadata,
         chunk_text |-> collection[o[k]].document]]

\* KBService.search_knowledge, lines 259-267
SearchResults(hits) ==
    [k \in 1..Len(hits) |->
        [chunk_id |-> IntOfDigits(hits[k].chunk_id),
         score |-> hits[k].score,
         document_id |-> IntOfDigits(hits[k].metadata.document_id),
         snippet |-> IF Len(hits[k].chunk_text) > 200
                     THEN Slice(hits[k].chunk_text, 0, 200) \o <<".", ".", ".">>
                     ELSE hits[k].chunk_text]]

\* RAGService._get_chunk_details: the results whose chunk_id names a Chunk
\* row that joins a Document row, each with the text of its row.
ChunkMap(rows, docs) ==
    {k \in 1..Len(rows) : rows[k].document_id \in DOMAIN docs}

GetChunkDetails(rows, docs, results) ==
    LET found(r) == \E k \in ChunkMap(rows, docs) : rows[k].id = r.chunk_id
        row(r) == rows[CHOOSE k \in ChunkMap(rows, docs) :
                           rows[k].id = r.chunk_id]
        kept == SelectSeq(results, found)
    IN  [k \in 1..Len(kept) |->
            [chunk_id |-> kept[k].chunk_id, score |-> kept[k].score,
             document_id |-> row(kept[k]).document_id,
             section |-> row(kept[k]).meta_json.section,
             full_text |-> row(kept[k]).chunk_text]]

\* Answer texts: up to MaxPieces pieces, among them citations in and out of
\* range, a citation with a leading zero, references that are not integers
\* or not closed, and a refusal keyword.
AnswerPieces ==
    { <<"[", "1", "]">>, <<"[", "2", "]">>, <<"[", "0", "1", "]">>,
      <<"[", "0", "]">>, <<"[", "3", "]">>, <<"[", "x", "]">>,
      <<"[", "1">>, <<"x">>, <<"wu", "fa", "que", "ding">> }

RECURSIVE Concat(_)
Concat(pieces) ==
    IF pieces = <<>> THEN <<>> ELSE pieces[1] \o Concat(Tail(pieces))

Answers == {Concat(ps) : ps \in SeqsUpTo(AnswerPieces, MaxPieces)}

\* Evidence lists for a direct call of the scorer; the scores include values
\* below 0 and above 1.
RawScores == {0 - 5, 0, 8, 10, 15}

EvidenceLists ==
    UNION {[1..n -> {[chunk_id |-> 0, score |-> sc, document_id |-> 0,
                      section |-> NoSection, full_text |-> <<>>]
                     : sc \in RawScores}]
           : n \in 0..MaxEvidence}

\* The database a question meets: the vectors of one ingestion pass over
\* document 1, and its rows, or no rows when the commit of the pass failed
\* after the upsert; the adapter is connected, or not yet when the process
\* started after the pass.
PassOverDocument1 ==
    LET chunks == ChunkDocument(JobChunker(None), StoredFiles[1])
        texts == [k \in 1..Len(chunks) |-> chunks[k].text]
    IN  PersistFold(chunks, GetEmbeddingsBatch(texts), 1,
                    UploadedDocuments[1].course_id, 1,
                    [rows |-> <<>>, vector_records |-> <<>>])

InitScore ==
    /\ tasks = <<>>
    /\ jobs = <<>>
    /\ documents = UploadedDocuments
    /\ collections = Upsert(<<>>, Str(UploadedDocuments[1].course_id),
                            PassOverDocument1.vector_records)
    /\ chunk_rows \in {PassOverDocument1.rows, <<>>}
    /\ connected \in BOOLEAN
    /\ InitScoreIdle
    /\ InitStoreIdle
    /\ InitStreamIdle
    /\ InitConnIdle
    /\ InitSplitIdle
    /\ InitChunkIdle

\* What the re-rank service may answer for n documents when top_n results
\* are asked for: an error, or a list of indexes -- the first top_n, the last
\* top_n backwards, every document, none, one index past the end, one
\* negative index.
RerankAnswers(n, top_n) ==
    {[kind |-> "error", indexes |-> <<>>]} \cup
    {[kind |-> "ok", indexes |-> ix] :
        ix \in {[k \in 1..top_n |-> k - 1],
                [k \in 1..top_n |-> n - k],
                [k \in 1..n |-> k - 1],
                <<>>,
                <<0, n>>,
                <<0 - 1>>}}

\* SiliconFlowClient.rerank: the RerankResult list, or None when the call
\* raises LLMException (status other than 200, or documents[item["index"]]
\* raises IndexError).
Rerank(rerank_documents, top_n, answer) ==
    IF answer.kind = "error" THEN None
    ELSE IF \E k \in 1..Len(answer.indexes) :
                ~PyIndexValid(rerank_documents, answer.indexes[k])
         THEN None
         ELSE Some([k \in 1..Len(answer.indexes) |->
                       [index |-> answer.indexes[k],
                        score |-> Len(answer.indexes) - k,
                        document |->
                            PyIndex(rerank_documents, answer.indexes[k])]])

\* The result of line 96 with its rerank_score.
WithRerankScore(original_result, rerank_score) ==
    [chunk_id |-> original_result.chunk_id,
     score |-> original_result.score,
     document_id |-> original_result.document_id,
     snippet |-> original_result.snippet,
     rerank_score |-> rerank_score]

\* RAGService._rerank_results: the results in the order of the service, or
\* the results as they are when the call raises.  RerankResultsNoFallback is
\* a faulty variant that returns nothing when the call raises.
RerankResultsNoFallback(results, answer) ==
    LET rerank_documents == [k \in 1..Len(results) |-> results[k].snippet]
        rerank_results == Rerank(rerank_documents, RERANK_TOP_N, answer)
    IN  IF rerank_results = None THEN <<>>
        ELSE [k \in 1..Len(rerank_results[1]) |->
                 WithRerankScore(PyIndex(results, rerank_results[1][k].index),
                                 rerank_results[1][k].score)]

RerankResults(results, answer) ==
    LET rerank_documents == [k \in 1..Len(results) |-> results[k].snippet]
        rerank_results == Rerank(rerank_documents, RERANK_TOP_N, answer)
    IN  IF rerank_results = None THEN results
        ELSE [k \in 1..Len(rerank_results[1]) |->
                 WithRerankScore(PyIndex(results, rerank_results[1][k].index),
                                 rerank_results[1][k].score)]

\* Line 49: the re-rank client is called for more than RERANK_TOP_N results.
RerankCalled(search_results) == Len(search_results) > RERANK_TOP_N

\* What the service may answer in ask_question; nothing is asked of it when
\* it is not called.
RerankOutcomes(search_results) ==
    IF RerankCalled(search_results)
    THEN RerankAnswers(Len(search_results),
                       Min(RERANK_TOP_N, Len(search_results)))
    ELSE {[kind |-> "not_called", indexes |-> <<>>]}

\* Lines 49-54 of ask_question.
FinalResults(search_results, answer) ==
    IF RerankCalled(search_results)
    THEN Slice(RerankResults(search_results, answer), 0, RERANK_TOP_N)
    ELSE search_results

\* settings.CONFIDENCE_THRESHOLD, 0.45
CONFIDENCE_THRESHOLD == Rat(45, 100)

\* _create_no_evidence_response: no qa_id, the three canned follow-ups.
NoEvidenceResponse == [qa_id |-> None, followups |-> "canned"]

\* _create_low_confidence_response: no qa_id, the two clarifying prompts.
LowConfidenceResponse == [qa_id |-> None, followups |-> "clarifying"]

\* The QALog row of lines 211-218 and 266-273.
QALog(answer, citations, confidence) ==
    [answer |-> answer, citations_json |-> citations,
     confidence |-> confidence]

\* Line 207: `confidence < self.confidence_threshold`
BelowThreshold(confidence) == RatLess(confidence, CONFIDENCE_THRESHOLD)

\* RAGService.ask_question without streaming.  The query of line 38 goes
\* through get_collection, which connects and creates the collection of the
\* course when it is missing.
AskQuestion ==
    /\ q_pc = "idle"
    /\ connected' = GetCollectionConnected(connected)
    /\ \E course_id \in DOMAIN UploadedDocuments :
       \E cols \in {GetCollection(collections, Str(course_id))} :
       \E collection \in {cols[CollectionName(Str(course_id))]} :
       \E distance \in [DOMAIN collection -> Distances] :
       \E o \in ResultOrders(collection, distance) :
       \E search_results \in
             {SearchResults(QueryHits(collection, distance, o, TOP_K))} :
          /\ collections' = cols
          /\ q_search_results' = search_results
          /\ q_distances' = [k \in 1..Len(search_results) |-> distance[o[k]]]
          /\ IF search_results = <<>>
             THEN /\ q_response' = NoEvidenceResponse
                  /\ q_confidence' = Rat(0, 1)
                  /\ q_citations' = <<>>
                  /\ q_pc' = "no_evidence"
                  /\ UNCHANGED <<q_final_results, q_rerank_calls,
                                 q_rerank_answer, q_chunk_details, q_answer,
                                 q_llm_calls, qa_logs>>
             ELSE \E rerank_answer \in RerankOutcomes(search_results) :
                  \E final_results \in
                        {FinalResults(search_results, rerank_answer)} :
                  \E chunk_details \in
                        {GetChunkDetails(chunk_rows, documents, final_results)} :
                     /\ q_rerank_calls' =
                           IF RerankCalled(search_results)
                           THEN q_rerank_calls + 1 ELSE q_rerank_calls
                     /\ q_rerank_answer' = rerank_answer
                     /\ q_final_results' = final_results
                     /\ q_chunk_details' = chunk_details
                     /\ q_llm_calls' = q_llm_calls + 1
                     /\ \/ \* chat_completion raises: LLMException
                           /\ q_pc' = "failed"
                           /\ UNCHANGED <<q_answer, q_confidence, q_citations,
                                          q_response, qa_logs>>
                        \/ \E answer \in Answers :
                           \E order \in SetIterations(
                                           FindAllCitations(answer, 1, <<>>)) :
                           \E confidence \in
                                 {CalculateConfidence(chunk_details, answer)} :
                           \E citations \in
                                 {ExtractCitations(chunk_details, answer,
                                                   order)} :
                              /\ q_answer' = answer
                              /\ q_confidence' = confidence
                              /\ q_citations' = citations
                              /\ q_pc' = "answered"
                              /\ IF BelowThreshold(confidence)
                                 THEN /\ q_response' = LowConfidenceResponse
                                      /\ UNCHANGED qa_logs
                                 ELSE /\ qa_logs' =
                                            Append(qa_logs,
                                                   QALog(answer, citations,
                                                         confidence))
                                      /\ q_response' =
                                            [qa_id |-> Some(Len(qa_logs) + 1),
                                             followups |-> "generated"]
    /\ UNCHANGED <<tasks, jobs, documents, chunk_rows, splitVars, chunkVars,
                   storeVars, streamVars,
                   connVars>>

\* A call of _calculate_confidence on its own.
CalculateConfidenceCall ==
    /\ q_pc = "idle"
    /\ \E chunk_details \in EvidenceLists, answer \in Answers :
          /\ q_chunk_details' = chunk_details
          /\ q_answer' = answer
          /\ q_confidence' = CalculateConfidence(chunk_details, answer)
    /\ q_pc' = "scored"
    /\ UNCHANGED <<q_search_results, q_final_results, q_rerank_calls,
                   q_rerank_answer, q_distances, q_citations, q_llm_calls, q_response, qa_logs,
                   ingestVars, splitVars, chunkVars, storeVars, streamVars,
                   connVars>>

NextScore == AskQuestion \/ CalculateConfidenceCall

SpecScore == InitScore /\ [][NextScore]_vars


---------------------------------------------------------------------------
(* Retrieval: KBService.search_knowledge and the re-rank step of
   RAGService.ask_question, over stores of up to MaxCandidates records *)

MaxCandidates == 7

\* The vector records of n chunks of document 1, ids 1..n.
CandidateVectors(n) ==
    [k \in 1..n |->
        [chunk_id |-> Str(k),
         course_id |-> Str(UploadedDocuments[1].course_id),
         document_id |-> Str(1),
         section |-> NoSection,
         page |-> k,
         chunk_text |-> <<"a">>,
         embedding |-> <<"embedding", <<"a">>>>]]

\* The distances a store may report, whatever its metric: below 0, 0,
\* between 0 and 1, above 1 (tenths).
StoreDistances == {0 - 2, 0, 2, 12}

\* The answers of collection.query taken here: the records in the order of
\* their ids, with distances that do not decrease along it.
SortedDistances(collection) ==
    {distance \in [DOMAIN collection -> StoreDistances] :
        \A a, b \in DOMAIN collection :
            IntOfDigits(a) <= IntOfDigits(b) => distance[a] <= distance[b]}

IdOrder(collection) ==
    [k \in 1..Cardinality(DOMAIN collection) |-> Str(k)]

InitRerank ==
    /\ tasks = <<>>
    /\ jobs = <<>>
    /\ documents = UploadedDocuments
    /\ chunk_rows = <<>>
    /\ connected = FALSE
    /\ \E n \in 0..MaxCandidates :
          collections = Upsert(<<>>, Str(UploadedDocuments[1].course_id),
                               CandidateVectors(n))
    /\ InitScoreIdle
    /\ InitStoreIdle
    /\ InitStreamIdle
    /\ InitConnIdle
    /\ InitSplitIdle
    /\ InitChunkIdle

\* KBService.search_knowledge for course 1 with the top_k of ask_question.
SearchKnowledge ==
    /\ q_pc = "idle"
    /\ connected' = GetCollectionConnected(connected)
    /\ \E cols \in {GetCollection(collections,
                                   Str(UploadedDocuments[1].course_id))} :
       \E collection \in
             {cols[CollectionName(Str(UploadedDocuments[1].course_id))]} :
       \E distance \in SortedDistances(collection) :
       \E o \in {IdOrder(collection)} :
          /\ collections' = cols
          /\ q_search_results' =
                SearchResults(QueryHits(collection, distance, o, TOP_K))
          /\ q_distances' = [k \in 1..Min(TOP_K, Len(o)) |-> distance[o[k]]]
    /\ q_pc' = "searched"
    /\ UNCHANGED <<q_final_results, q_rerank_calls, q_rerank_answer,
                   q_chunk_details, q_answer, q_confidence, q_citations,
                   q_llm_calls, q_response, qa_logs,
                   tasks, jobs, documents, chunk_rows,
                   splitVars, chunkVars, storeVars, streamVars,
                   connVars>>

\* Lines 45-54 of ask_question on the results of the search: the
\* no-evidence response for no results, else the optional re-rank.
SelectEvidence ==
    /\ q_pc = "searched"
    /\ IF q_search_results = <<>>
       THEN /\ q_response' = NoEvidenceResponse
            /\ q_pc' = "no_evidence"
            /\ UNCHANGED <<q_final_results, q_rerank_calls, q_rerank_answer>>
       ELSE \E rerank_answer \in RerankOutcomes(q_search_results) :
               /\ q_rerank_answer' = rerank_answer
               /\ q_rerank_calls' =
                     IF RerankCalled(q_search_results)
                     THEN q_rerank_calls + 1 ELSE q_rerank_calls
               /\ q_final_results' =
                     FinalResults(q_search_results, rerank_answer)
               /\ q_pc' = "retrieved"
               /\ UNCHANGED q_response
    /\ UNCHANGED <<q_search_results, q_distances, q_chunk_details, q_answer,
                   q_confidence, q_citations, q_llm_calls, qa_logs,
                   ingestVars, splitVars, chunkVars, storeVars, streamVars,
                   connVars>>

NextRerank == SearchKnowledge \/ SelectEvidence

SpecRerank == InitRerank /\ [][NextRerank]_vars


---------------------------------------------------------------------------
(* The vector store adapter, ChromaAdapter, called on its own *)

MaxVectors == 2

\* The courses and documents, and the records a caller may pass: chunk 1
\* with two texts or under another document, chunks 2 and 3.  A list names
\* a chunk_id once, as the lists of the ingestion do (the ids are primary
\* keys).
StoreCourses == {Str(1), Str(2)}

StoreDocuments == {Str(1), Str(2)}

VectorRecord(chunk_id, course_id, document_id, chunk_text) ==
    [chunk_id |-> chunk_id, course_id |-> course_id,
     document_id |-> document_id, section |-> NoSection, page |-> 0,
     chunk_text |-> chunk_text, embedding |-> <<"embedding", chunk_text>>]

StoreVectors(course_id) ==
    {VectorRecord(Str(1), course_id, Str(1), <<"a">>),
     VectorRecord(Str(1), course_id, Str(1), <<"b">>),
     VectorRecord(Str(1), course_id, Str(2), <<"a">>),
     VectorRecord(Str(2), course_id, Str(2), <<"a">>),
     VectorRecord(Str(3), course_id, Str(1), <<"a">>)}

StoreVectorLists(course_id) ==
    {vectors \in SeqsUpTo(StoreVectors(course_id), MaxVectors) :
        \A k, l \in 1..Len(vectors) :
            k # l => vectors[k].chunk_id # vectors[l].chunk_id}

\* ChromaAdapter.delete_by_document: get_collection, then the ids whose
\* metadata has the document_id are deleted.
DeleteByDocument(cols, course_id, document_id) ==
    LET got == GetCollection(cols, course_id)
        name == CollectionName(course_id)
        ids == {id \in DOMAIN got[name] :
                   got[name][id].metadata.document_id = document_id}
    IN  [got EXCEPT ![name] = [id \in DOMAIN got[name] \ ids |-> got[name][id]]]

StoreOp(op, course_id, vectors, document_id) ==
    [op |-> op, course_id |-> course_id, vectors |-> vectors,
     document_id |-> document_id]

InitStore ==
    /\ tasks = <<>>
    /\ jobs = <<>>
    /\ documents = <<>>
    /\ chunk_rows = <<>>
    /\ collections = <<>>
    /\ connected = FALSE
    /\ InitScoreIdle
    /\ InitStoreIdle
    /\ InitStreamIdle
    /\ InitConnIdle
    /\ InitSplitIdle
    /\ InitChunkIdle

\* ChromaAdapter.upsert
StoreUpsert ==
    /\ \E course_id \in StoreCourses :
       \E vectors \in StoreVectorLists(course_id) :
          /\ collections' = Upsert(collections, course_id, vectors)
          /\ connected' = UpsertConnected(connected, vectors)
          /\ store_op' = StoreOp("upsert", course_id, vectors, None)
    /\ store_before' = [collections |-> collections, connected |-> connected]
    /\ UNCHANGED <<tasks, jobs, documents, chunk_rows, scoreVars, streamVars,
                   splitVars, chunkVars,
                   connVars>>

\* ChromaAdapter.delete_by_document
StoreDeleteByDocument ==
    /\ \E course_id \in StoreCourses, document_id \in StoreDocuments :
          /\ collections' =
                DeleteByDocument(collections, course_id, document_id)
          /\ store_op' = StoreOp("delete_by_document", course_id, <<>>,
                                 Some(document_id))
    /\ connected' = GetCollectionConnected(connected)
    /\ store_before' = [collections |-> collections, connected |-> connected]
    /\ UNCHANGED <<tasks, jobs, documents, chunk_rows, scoreVars, streamVars,
                   splitVars, chunkVars,
                   connVars>>

\* ChromaAdapter.query: get_collection, then a read.
StoreQuery ==
    /\ \E course_id \in StoreCourses :
          /\ collections' = GetCollection(collections, course_id)
          /\ store_op' = StoreOp("query", course_id, <<>>, None)
    /\ connected' = GetCollectionConnected(connected)
    /\ store_before' = [collections |-> collections, connected |-> connected]
    /\ UNCHANGED <<tasks, jobs, documents, chunk_rows, scoreVars, streamVars,
                   splitVars, chunkVars,
                   connVars>>

NextStore == StoreUpsert \/ StoreDeleteByDocument \/ StoreQuery

SpecStore == InitStore /\ [][NextStore]_vars


---------------------------------------------------------------------------
(* Connecting: ChromaAdapter.init_connection, its recovery, and
   get_collection's use of the connection *)

MaxConnects == 2

\* What a step of the store library may do: return, or raise with a message
\* of a schema incompatibility ("no such column: collections.topic"), of a
\* file that cannot be opened or is corrupted, or another message.
StepOutcomes == {"ok", "schema", "corrupt", "other"}

\* What one call of init_connection meets: the outcome of
\* chromadb.PersistentClient and of list_collections in lines 71-75, of
\* shutil.move and os.makedirs in the backup, and of the two calls again in
\* lines 95-97.
ConnectEnvs ==
    [create : StepOutcomes, probe : StepOutcomes, move : BOOLEAN,
     makedirs : BOOLEAN, create_again : BOOLEAN, probe_again : BOOLEAN]

\* What the persisted directory may hold when the process starts.
StoredData == {"absent", "data"}

\* _backup_and_reset_persist_dir at time stamp: the directory, when it
\* exists, is moved to a sibling named by the time, then made anew.
\* BackupAndResetNoMove is a faulty variant that reports success without
\* moving anything.
BackupAndResetNoMove(dir, backups, env, stamp) ==
    [ok |-> TRUE, dir |-> dir, backups |-> backups]

BackupAndResetPersistDir(dir, backups, env, stamp) ==
    IF dir # "absent" /\ ~env.move
    THEN [ok |-> FALSE, dir |-> dir, backups |-> backups]
    ELSE LET moved == IF dir = "absent" THEN backups
                      ELSE Append(backups, [stamp |-> stamp, holds |-> dir])
         IN  IF env.makedirs
             THEN [ok |-> TRUE, dir |-> "empty", backups |-> moved]
             ELSE [ok |-> FALSE, dir |-> "absent", backups |-> moved]

\* The messages of the VectorDBException of lines 89-93, 102 and 104, as the
\* list of their parts.
ManualMessage == <<"schema incompatible", "stop the service", "delete by hand">>

UnrecoverableMessage(reset_error) == <<"cannot recover">> \o reset_error

FailedMessage(e) == <<"connection failed", e>>

\* Line 83: the message names the missing column of an old schema.
IsSchemaError(e) == e = "schema"

\* ChromaAdapter.init_connection for an adapter a = [connected, client, dir,
\* backups], as call number n: the adapter and directory afterwards, whether
\* the call raised, its message and the number of recoveries tried.
InitConnection(a, env, n) ==
    LET dir0 == IF a.dir = "absent" THEN "empty" ELSE a.dir
        created == env.create = "ok"
        \* lines 71-72
        client1 == IF created THEN Some([id |-> n, probed |-> FALSE])
                   ELSE a.client
        connected1 == IF created THEN TRUE ELSE a.connected
        e == IF created THEN env.probe ELSE env.create
    IN  IF e = "ok"
        THEN [connected |-> TRUE, client |-> Some([id |-> n, probed |-> TRUE]),
              dir |-> dir0, backups |-> a.backups,
              raised |-> FALSE, message |-> <<>>, recoveries |-> 0]
        ELSE IF IsSchemaError(e)
        THEN LET r == BackupAndResetPersistDir(dir0, a.backups, env, n)
             IN  IF ~r.ok
                 THEN [connected |-> FALSE, client |-> client1,
                       dir |-> r.dir, backups |-> r.backups,
                       raised |-> TRUE,
                       message |-> UnrecoverableMessage(ManualMessage),
                       recoveries |-> 1]
                 ELSE IF ~env.create_again
                 THEN [connected |-> FALSE, client |-> client1,
                       dir |-> r.dir, backups |-> r.backups,
                       raised |-> TRUE,
                       message |-> UnrecoverableMessage(<<"create failed">>),
                       recoveries |-> 1]
                 ELSE IF ~env.probe_again
                 THEN [connected |-> TRUE,
                       client |-> Some([id |-> n, probed |-> FALSE]),
                       dir |-> r.dir, backups |-> r.backups,
                       raised |-> TRUE,
                       message |-> UnrecoverableMessage(<<"probe failed">>),
                       recoveries |-> 1]
                 ELSE [connected |-> TRUE,
                       client |-> Some([id |-> n, probed |-> TRUE]),
                       dir |-> r.dir, backups |-> r.backups,
                       raised |-> FALSE, message |-> <<>>, recoveries |-> 1]
        ELSE [connected |-> connected1, client |-> client1,
              dir |-> dir0, backups |-> a.backups,
              raised |-> TRUE, message |-> FailedMessage(e), recoveries |-> 0]

\* The adapter and the directory now.
Adapter ==
    [connected |-> connected, client |-> client, dir |-> fs_dir,
     backups |-> fs_backups]

InitConnect ==
    /\ tasks = <<>>
    /\ jobs = <<>>
    /\ documents = <<>>
    /\ chunk_rows = <<>>
    /\ collections = <<>>
    /\ connected = FALSE
    /\ client = None
    /\ fs_dir \in StoredData
    /\ fs_backups = <<>>
    /\ conn_last = [op |-> "none"]
    /\ conn_count = 0
    /\ InitScoreIdle
    /\ InitStoreIdle
    /\ InitStreamIdle
    /\ InitSplitIdle
    /\ InitChunkIdle

\* An operation of the adapter (get_collection, lines 141-163, and the
\* callers create_collection and drop_collection likewise): init_connection
\* is called when the adapter is not connected, and its exception leaves the
\* operation; else the operation goes on with self.client.
AdapterOperation ==
    /\ conn_count < MaxConnects
    /\ IF ~connected
       THEN \E env \in ConnectEnvs :
            \E r \in {InitConnection(Adapter, env, conn_count + 1)} :
               /\ connected' = r.connected
               /\ client' = r.client
               /\ fs_dir' = r.dir
               /\ fs_backups' = r.backups
               /\ conn_count' = conn_count + 1
               /\ conn_last' =
                     [op |-> "connect", env |-> env, before |-> Adapter,
                      raised |-> r.raised, message |-> r.message,
                      recoveries |-> r.recoveries]
       ELSE /\ conn_last' = [op |-> "reuse", used |-> client,
                             before |-> Adapter]
            /\ UNCHANGED <<connected, client, fs_dir, fs_backups, conn_count>>
    /\ UNCHANGED <<tasks, jobs, documents, chunk_rows, collections, scoreVars,
                   storeVars, streamVars, splitVars, chunkVars>>

\* The data of the directory is written by the operations that follow a
\* connection.
StoreWrites ==
    /\ connected
    /\ fs_dir = "empty"
    /\ fs_dir' = "data"
    /\ UNCHANGED <<client, fs_backups, conn_last, conn_count, ingestVars,
                   scoreVars, storeVars, streamVars, splitVars, chunkVars>>

NextConnect == AdapterOperation \/ StoreWrites

SpecConnect == InitConnect /\ [][NextConnect]_vars


---------------------------------------------------------------------------
(* Streaming: the websocket handler qa_stream, and the generator
   RAGService._generate_answer_stream iterated by a caller *)

MaxDeltas == 3

\* The text chunks chat_completion_stream may yield, and its scripts: up to
\* MaxDeltas chunks, after which the stream ends or raises LLMException.
StreamPieces == { <<"[", "1", "]">>, <<"x">>, <<"wu", "fa", "que", "ding">> }

StreamScripts ==
    {[chunks |-> cs, raises |-> r] :
        cs \in SeqsUpTo(StreamPieces, MaxDeltas), r \in BOOLEAN}

\* The evidence lists the generator is called with.
StreamEvidence ==
    UNION {[1..n -> {[chunk_id |-> 0, score |-> sc, document_id |-> 0,
                      section |-> NoSection, full_text |-> <<>>]
                     : sc \in {0, 10}}]
           : n \in 0..MaxEvidence}

\* The messages a client may send: course_id and question present or not.
StreamMessages == [course_id : BOOLEAN, question : BOOLEAN]

\* The events of lines 259, 280-285 and 289, and of qa.py:68-71, 95-98.
DeltaEvent(chunk) == [type |-> "delta", text |-> chunk]

FinalEvent(qa_id, confidence, citations) ==
    [type |-> "final", qa_id |-> qa_id, confidence |-> confidence,
     citations |-> citations]

ErrorEvent(message) == [type |-> "error", message |-> message]

InitStream ==
    /\ InitIngestIdle
    /\ InitScoreIdle
    /\ InitStoreIdle
    /\ InitStreamIdle
    /\ InitConnIdle
    /\ InitSplitIdle
    /\ InitChunkIdle

\* qa_stream, lines 66-72: a message without course_id or question gets one
\* error event.
StreamMalformed ==
    /\ stream_pc = "idle"
    /\ \E message \in StreamMessages, script \in StreamScripts :
          /\ ~(message.course_id /\ message.question)
          /\ stream_message' = Some(message)
          /\ stream_script' = script
    /\ stream_events' = Append(stream_events, ErrorEvent("missing parameter"))
    /\ stream_pc' = "handled"
    /\ UNCHANGED <<stream_pending, ingestVars, scoreVars, storeVars,
                   splitVars, chunkVars,
                   connVars>>

\* qa_stream, lines 78-98, for a message with course_id and question:
\* ask_question is a coroutine function, so the call of line 82 returns a
\* coroutine, `async for` over it raises TypeError before its body runs, and
\* the handler of line 93 sends one error event.  Neither the search nor the
\* generation client is reached, whatever they would have answered.
StreamRequest ==
    /\ stream_pc = "idle"
    /\ \E message \in StreamMessages, script \in StreamScripts :
          /\ message.course_id /\ message.question
          /\ stream_message' = Some(message)
          /\ stream_script' = script
    /\ stream_events' = Append(stream_events, ErrorEvent("TypeError"))
    /\ stream_pc' = "handled"
    /\ UNCHANGED <<stream_pending, ingestVars, scoreVars, storeVars,
                   splitVars, chunkVars,
                   connVars>>

\* _generate_answer_stream called and iterated: the first step runs lines
\* 245-252 up to the call of the generation client.
GenerateStart ==
    /\ stream_pc = "idle"
    /\ \E chunk_details \in StreamEvidence, script \in StreamScripts :
          /\ q_chunk_details' = chunk_details
          /\ stream_script' = script
          /\ stream_pending' = script.chunks
    /\ q_answer' = <<>>
    /\ q_llm_calls' = q_llm_calls + 1
    /\ stream_pc' = "streaming"
    /\ UNCHANGED <<stream_message, stream_events, q_search_results, q_distances,
                   q_final_results, q_rerank_calls, q_rerank_answer,
                   q_confidence, q_citations, q_response, qa_logs, q_pc,
                   ingestVars, storeVars, splitVars, chunkVars,
                   connVars>>

\* Lines 253-259: the next chunk is added to full_answer and yielded.
GenerateDelta ==
    /\ stream_pc = "streaming"
    /\ stream_pending # <<>>
    /\ q_answer' = q_answer \o Head(stream_pending)
    /\ stream_events' = Append(stream_events, DeltaEvent(Head(stream_pending)))
    /\ stream_pending' = Tail(stream_pending)
    /\ UNCHANGED <<stream_message, stream_script, stream_pc, q_search_results,
                   q_distances, q_final_results, q_rerank_calls,
                   q_rerank_answer, q_chunk_details, q_confidence, q_citations,
                   q_llm_calls, q_response, qa_logs, q_pc,
                   ingestVars, storeVars, splitVars, chunkVars,
                   connVars>>

\* Lines 261-285: the stream has ended; confidence and citations are
\* computed, the QALog row is committed and the final event yielded.
GenerateFinal ==
    /\ stream_pc = "streaming"
    /\ stream_pending = <<>>
    /\ ~stream_script.raises
    /\ \E order \in SetIterations(FindAllCitations(q_answer, 1, <<>>)) :
       \E confidence \in {CalculateConfidence(q_chunk_details, q_answer)} :
       \E citations \in {ExtractCitations(q_chunk_details, q_answer, order)} :
          /\ q_confidence' = confidence
          /\ q_citations' = citations
          /\ qa_logs' = Append(qa_logs, QALog(q_answer, citations, confidence))
          /\ stream_events' =
                Append(stream_events,
                       FinalEvent(Some(Len(qa_logs) + 1), confidence,
                                  citations))
    /\ stream_pc' = "closed"
    /\ UNCHANGED <<stream_message, stream_script, stream_pending,
                   q_search_results, q_distances, q_final_results,
                   q_rerank_calls, q_rerank_answer, q_chunk_details, q_answer,
                   q_llm_calls, q_response, q_pc,
                   ingestVars, storeVars, splitVars, chunkVars,
                   connVars>>

\* Lines 287-289: the generation client raises; an error event is yielded.
GenerateError ==
    /\ stream_pc = "streaming"
    /\ stream_pending = <<>>
    /\ stream_script.raises
    /\ stream_events' = Append(stream_events, ErrorEvent("LLMException"))
    /\ stream_pc' = "closed"
    /\ UNCHANGED <<stream_message, stream_script, stream_pending, scoreVars,
                   ingestVars, storeVars, splitVars, chunkVars,
                   connVars>>

NextStream ==
    \/ StreamMalformed
    \/ StreamRequest
    \/ GenerateStart
    \/ GenerateDelta
    \/ GenerateFinal
    \/ GenerateError

SpecStream == InitStream /\ [][NextStream]_vars


---------------------------------------------------------------------------
(* Claims about the chunker *)

\* C1: every chunk chunk_document returns, for every document type and every
\* policy with max_chars >= 1, has a text of at most max_chars characters.
C1_ChunkWithinMaxChars ==
    c_pc = "done" =>
        \A k \in 1..Len(doc_chunks) :
            Len(doc_chunks[k].text) <= policy.max_chars

\* A page longer than max_chars was split, and a later part of it fills
\* max_chars exactly.
C1_Witness ==
    /\ c_pc = "done"
    /\ parsed_doc.type = "pdf"
    /\ \E k \in 1..Len(doc_chunks) :
          /\ doc_chunks[k].part >= 2
          /\ Len(doc_chunks[k].text) = policy.max_chars
          /\ policy.max_chars >= 2

\* C2: the index values of the chunks chunk_document returns, in list order,
\* are exactly 0, 1, ..., n-1, for every document type.
C2_IndicesContiguous ==
    c_pc = "done" =>
        \A k \in 1..Len(doc_chunks) : doc_chunks[k].index = k - 1

\* C3: the cut start position strictly increases from one iteration of the
\* splitter loop to the next, and the loop terminates, for every policy with
\* max_chars >= 1 and overlap >= 0.
C3_SplitterProgress ==
    /\ [][(s_pc = "loop" /\ s_pc' = "loop") => s_start' > s_start]_vars
    /\ (s_pc = "loop") ~> (s_pc = "done")

\* The loop ran at least three iterations with overlap >= max_chars - 1 and
\* has returned.
C3_Witness ==
    /\ s_pc = "done"
    /\ s_overlap >= s_chunk_size - 1
    /\ s_start >= 2
    /\ Len(s_chunks) >= 3

---------------------------------------------------------------------------
(* Claims about the ingestion job *)

\* A task in a terminal status.
Terminal(task) == task.status \in {"done", "failed"}

\* A job that ended by an exception: its handler completed, or the exception
\* left the handler.
Raised(job) == job.pc \in {"failed", "crashed"}

\* C4: the committed progress of a task never decreases, and once its status
\* is done or failed its status, progress and error message never change.
C4_ProgressMonotoneTerminalAbsorbing ==
    [][\A t \in 1..Len(tasks) :
          /\ t <= Len(tasks')
          /\ tasks'[t].progress >= tasks[t].progress
          /\ Terminal(tasks[t]) => tasks'[t] = tasks[t]]_vars

\* A task failed at progress 0.5, and the other job went on to done after.
C4_Witness ==
    /\ Len(tasks) = 2
    /\ tasks[1].status = "failed"
    /\ tasks[1].progress = 5
    /\ tasks[2].status = "done"
    /\ jobs[2].pc = "finished"

C6_RaiseEndsFailed ==
    /\ [](\A t \in 1..Len(tasks) :
             tasks[t].error_message # None => tasks[t].status = "failed")
    /\ [][\A t \in 1..Len(jobs) :
             (~Raised(jobs[t]) /\ Raised(jobs'[t])) =>
                /\ tasks'[t].status = "failed"
                /\ tasks'[t].error_message # None
                /\ jobs[t].document_id \in DOMAIN documents =>
                      documents'[jobs[t].document_id].status = "failed"]_vars

\* C7: at the commit that makes a task done, one new Chunk row per chunk of
\* the pass is committed, each with an id of its own, the store of the
\* document's course holds one vector record under each such id, and the
\* document is ready.
C7_DoneMeansPersisted ==
    [][\A t \in 1..Len(tasks) :
          (tasks[t].status # "done" /\ tasks'[t].status = "done") =>
             LET job == jobs'[t]
                 n == Len(job.chunks)
                 base == Len(chunk_rows)
                 name == CollectionName(
                             Str(documents[job.document_id].course_id))
             IN  /\ Len(chunk_rows') = base + n
                 /\ SubSeq(chunk_rows', 1, base) = chunk_rows
                 /\ Len(job.vector_records) = n
                 /\ name \in DOMAIN collections'
                 /\ \A k \in 1..n :
                       LET row == chunk_rows'[base + k]
                       IN  /\ row.chunk_text = job.chunks[k].text
                           /\ row.document_id = job.document_id
                           /\ \A m \in 1..(base + n) :
                                 chunk_rows'[m].id = row.id => m = base + k
                           /\ job.vector_records[k].chunk_id = Str(row.id)
                           /\ Str(row.id) \in DOMAIN collections'[name]
                           /\ collections'[name][Str(row.id)].document =
                                 job.chunks[k].text
                           /\ collections'[name][Str(row.id)].metadata.document_id =
                                 Str(job.document_id)
                 /\ documents'[job.document_id].status = "ready"]_vars

\* A job finished a pass of three chunks after another pass had left rows.
C7_Witness ==
    \E t \in 1..Len(jobs) :
        /\ jobs[t].pc = "finished"
        /\ tasks[t].status = "done"
        /\ Len(jobs[t].chunks) = 3
        /\ Len(chunk_rows) > 3
        /\ documents[jobs[t].document_id].status = "ready"


---------------------------------------------------------------------------
(* Claims about the confidence scorer *)

\* C8: the confidence the scorer returns is within [0, 1], for every
\* evidence list (empty, or with scores below 0 or above 1) and every answer.
C8_ConfidenceWithinUnit ==
    q_pc \in {"no_evidence", "answered", "scored"} =>
        /\ RatLeq(Rat(0, 1), q_confidence)
        /\ RatLeq(q_confidence, Rat(1, 1))

\* Two items of score 1.5, both cited, no refusal: 0.4 * 1.5 + 0.4 + 0.2
\* is 1.2, and 1 is returned.
C8_Witness ==
    /\ q_pc = "scored"
    /\ Len(q_chunk_details) = 2
    /\ \A k \in 1..2 : q_chunk_details[k].score = 15
    /\ CitedCount(q_chunk_details, q_answer) >= 2
    /\ ~RefusalFlag(q_answer)
    /\ q_confidence = Rat(1, 1)

\* C9: for the evidence list of an answered question, the answer with a
\* refusal keyword added gets a strictly lower confidence than the answer
\* without it.
C9_RefusalStrictlyLowers ==
    (q_pc = "answered" /\ ~RefusalFlag(q_answer)) =>
        RatLess(CalculateConfidence(q_chunk_details,
                    q_answer \o <<"wu", "fa", "que", "ding">>),
                q_confidence)

\* C10: for non-empty evidence the confidence is
\* clamp(0.4 * mean score + 0.4 * coverage + 0.2, 0, 1), halved first on a
\* refusal, with coverage = min(distinct cited evidence items / evidence
\* count, 1): a repeated or out-of-range citation does not count.
C10_CoverageCountsDistinctItems ==
    (q_pc \in {"answered", "scored"} /\ q_chunk_details # <<>>) =>
        LET n == Len(q_chunk_details)
            cited == CitedItems(q_chunk_details, q_answer)
            base == Rat(4 * SumScores(q_chunk_details)
                        + 40 * Min(cited, n) + 20 * n, 100 * n)
            halved == IF RefusalFlag(q_answer)
                      THEN Rat(base.num, 2 * base.den) ELSE base
        IN  RatEq(q_confidence, Clamp01(halved))

---------------------------------------------------------------------------
(* Claims about citations, retrieval and the answer *)

\* The integers of the references [n] of the answer last given.
CitedNumbers ==
    {IntOf(FindAllCitations(q_answer, 1, <<>>)[k]) :
        k \in 1..Len(FindAllCitations(q_answer, 1, <<>>))}

\* C11: every Citation extracted from an answer is the citation of evidence
\* item n for a reference [n] of the answer with 1 <= n <= evidence count;
\* a reference with n = 0, n above the count or no integer in it gives no
\* citation, and the extraction does not raise.
C11_CitationsAreInRangeReferences ==
    q_pc = "answered" =>
        \A k \in 1..Len(q_citations) :
            \E n \in CitedNumbers :
                /\ 1 <= n
                /\ n <= Len(q_chunk_details)
                /\ q_citations[k].chunk_id = q_chunk_details[n].chunk_id
                /\ q_citations[k].document_id = q_chunk_details[n].document_id
                /\ q_citations[k].section = q_chunk_details[n].section
                /\ q_citations[k].snippet = q_chunk_details[n].full_text

\* An answer with [0], [3] and [1] over two evidence items: one citation,
\* of item 1.
C11_Witness ==
    /\ q_pc = "answered"
    /\ Len(q_chunk_details) = 2
    /\ Contains(q_answer, <<"[", "0", "]">>)
    /\ Contains(q_answer, <<"[", "3", "]">>)
    /\ Contains(q_answer, <<"[", "1", "]">>)
    /\ Len(q_citations) = 1
    /\ q_citations[1].chunk_id = q_chunk_details[1].chunk_id

\* C12: the citation list of an answer never holds the same chunk_id twice,
\* whatever the form of the references ([1] repeated, [1] and [01]).
C12_NoDuplicateChunkId ==
    q_pc = "answered" =>
        \A k, l \in 1..Len(q_citations) :
            k # l => q_citations[k].chunk_id # q_citations[l].chunk_id

\* A list of hits in non-increasing order of score.
SortedByScore(hits) ==
    \A k \in 1..(Len(hits) - 1) : hits[k].score >= hits[k + 1].score

\* C13: the hits of the vector search, and the evidence list after the
\* re-rank step, are sorted by non-increasing score.
C13_HitsSortedByScore ==
    /\ q_pc \in {"searched", "retrieved"} => SortedByScore(q_search_results)
    /\ q_pc = "retrieved" => SortedByScore(q_final_results)

\* C14: every hit of query has score = clamp(1 - distance, 0, 1) for the
\* distance the store reported, below 0 and above 1 included (tenths).
C14_ScoreIsClampedDistance ==
    q_pc \in {"searched", "retrieved"} =>
        \A k \in 1..Len(q_search_results) :
            q_search_results[k].score =
                Max(0, Min(10, 10 - q_distances[k]))

\* The re-rank call raised: the service answered with an error, or with an
\* index at or past the number of documents.
RerankRaised ==
    \/ q_rerank_answer.kind = "error"
    \/ \E k \in 1..Len(q_rerank_answer.indexes) :
          q_rerank_answer.indexes[k] >= Len(q_search_results)

\* The service answered with an index that names no document.
RerankIndexInvalid ==
    \E k \in 1..Len(q_rerank_answer.indexes) :
       \/ q_rerank_answer.indexes[k] >= Len(q_search_results)
       \/ q_rerank_answer.indexes[k] < 0

C15_GenerationOnlyWithEvidence ==
    q_pc \in {"no_evidence", "answered", "failed"} =>
        /\ q_llm_calls > 0 => q_chunk_details # <<>>
        /\ q_chunk_details = <<>> =>
              /\ q_response = NoEvidenceResponse
              /\ RatEq(q_confidence, Rat(0, 1))
              /\ q_citations = <<>>
              /\ qa_logs = <<>>
              /\ q_llm_calls = 0

\* C16: in whole-response and in streaming mode a QA record is persisted
\* if and only if the confidence is at or above the threshold; an answer
\* below it is returned with its confidence and citations, without qa_id
\* and with the clarifying follow-ups.
C16_PersistedIffAtOrAboveThreshold ==
    /\ q_pc = "answered" =>
          /\ qa_logs # <<>> <=> ~RatLess(q_confidence, CONFIDENCE_THRESHOLD)
          /\ RatLess(q_confidence, CONFIDENCE_THRESHOLD) =>
                q_response = LowConfidenceResponse
    /\ (stream_pc = "closed" /\ ~stream_script.raises) =>
          /\ qa_logs # <<>> <=> ~RatLess(q_confidence, CONFIDENCE_THRESHOLD)
          /\ RatLess(q_confidence, CONFIDENCE_THRESHOLD) =>
                stream_events[Len(stream_events)].qa_id = None

\* C17: for a message with course_id and question the server sends the text
\* chunks of the generation client as delta events in order, then exactly
\* one terminal event: final when generation succeeds, error when it fails.
C17_DeltasThenOneTerminalEvent ==
    (/\ stream_pc = "handled"
     /\ stream_message = Some([course_id |-> TRUE, question |-> TRUE])) =>
        /\ Len(stream_events) = Len(stream_script.chunks) + 1
        /\ \A k \in 1..Len(stream_script.chunks) :
              stream_events[k] = DeltaEvent(stream_script.chunks[k])
        /\ stream_events[Len(stream_events)].type =
              (IF stream_script.raises THEN "error" ELSE "final")

---------------------------------------------------------------------------
(* Claims about the vector store adapter *)

\* The last record of the list of the last call with chunk_id id.
LastWritten(id) ==
    store_op.vectors[CHOOSE k \in 1..Len(store_op.vectors) :
                        /\ store_op.vectors[k].chunk_id = id
                        /\ \A m \in (k + 1)..Len(store_op.vectors) :
                               store_op.vectors[m].chunk_id # id]

\* C19: after upsert of a list, the collection of the course holds one
\* record per chunk_id of the list with the values written last, and
\* applying the same list again changes nothing; upsert of the empty list
\* writes nothing, creates no collection and opens no connection.
C19_UpsertIdempotent ==
    store_op.op = "upsert" =>
        /\ Upsert(collections, store_op.course_id, store_op.vectors)
              = collections
        /\ \A k \in 1..Len(store_op.vectors) :
              LET id == store_op.vectors[k].chunk_id
                  record == collections[CollectionName(store_op.course_id)][id]
              IN  /\ record.document = LastWritten(id).chunk_text
                  /\ record.metadata.document_id = LastWritten(id).document_id
                  /\ record.embedding = LastWritten(id).embedding
        /\ store_op.vectors = <<>> =>
              /\ collections = store_before.collections
              /\ connected = store_before.connected

\* Chunk 1 written with the text "b" and chunk 2 with it, over a
\* collection that held chunk 1 with the text "a".
C19_Witness ==
    /\ store_op.op = "upsert"
    /\ Len(store_op.vectors) = 2
    /\ store_op.vectors[1].chunk_id = Str(1)
    /\ store_op.vectors[1].chunk_text = <<"b">>
    /\ CollectionName(store_op.course_id) \in DOMAIN store_before.collections
    /\ Str(1) \in DOMAIN
          store_before.collections[CollectionName(store_op.course_id)]
    /\ store_before.collections[CollectionName(store_op.course_id)][Str(1)]
          .document = <<"a">>
    /\ collections[CollectionName(store_op.course_id)][Str(1)].document
          = <<"b">>

\* C20: delete_by_document removes the records of the course collection
\* with the document_id and leaves every other record as it was; neither
\* it nor query creates or removes a collection.
C20_DeleteFrame ==
    /\ store_op.op = "delete_by_document" =>
          /\ DOMAIN collections = DOMAIN store_before.collections
          /\ \A name \in DOMAIN store_before.collections :
                \A id \in DOMAIN store_before.collections[name] :
                   IF /\ name = CollectionName(store_op.course_id)
                      /\ store_before.collections[name][id].metadata.document_id
                            = store_op.document_id[1]
                   THEN id \notin DOMAIN collections[name]
                   ELSE /\ id \in DOMAIN collections[name]
                        /\ collections[name][id]
                              = store_before.collections[name][id]
    /\ store_op.op = "query" => collections = store_before.collections

---------------------------------------------------------------------------
(* Claims about connecting and recovery *)

\* The error the last call of init_connection met first.
FirstError ==
    IF conn_last.env.create = "ok" THEN conn_last.env.probe
    ELSE conn_last.env.create

\* The directory as line 66 leaves it before the client is created.
DirAtConnect ==
    IF conn_last.before.dir = "absent" THEN "empty" ELSE conn_last.before.dir

\* C21: when connecting fails with a schema-incompatibility or a
\* file-corruption error (and the recovery itself meets no failure), the
\* directory is moved to a time-stamped backup, an empty store is made at
\* the path and the adapter ends connected; what the directory held is in
\* the directory or in a backup afterwards.
C21_RecoveryOnSchemaOrCorruption ==
    conn_last.op = "connect" =>
        /\ (/\ FirstError \in {"schema", "corrupt"}
            /\ conn_last.env.move /\ conn_last.env.makedirs
            /\ conn_last.env.create_again /\ conn_last.env.probe_again) =>
              /\ ~conn_last.raised
              /\ connected
              /\ fs_dir = "empty"
              /\ Len(fs_backups) = Len(conn_last.before.backups) + 1
              /\ fs_backups[Len(fs_backups)].holds = DirAtConnect
        /\ conn_last.before.dir = "data" =>
              \/ fs_dir = "data"
              \/ \E k \in 1..Len(fs_backups) : fs_backups[k].holds = "data"

\* C22: when the move to the backup fails during the recovery, the call
\* raises with a message that tells the operator to stop the service and
\* act by hand, the directory and the backups are as before, one recovery
\* was tried and the adapter is not connected.
C22_MoveFailureIsManual ==
    (/\ conn_last.op = "connect"
     /\ FirstError = "schema"
     /\ ~conn_last.env.move) =>
        /\ conn_last.raised
        /\ \E k \in 1..Len(conn_last.message) :
              conn_last.message[k] = "stop the service"
        /\ fs_dir = DirAtConnect
        /\ fs_backups = conn_last.before.backups
        /\ conn_last.recoveries = 1
        /\ ~connected

\* The probe of a new client meets the old schema over a directory with
\* data, and the move fails.
C22_Witness ==
    /\ conn_last.op = "connect"
    /\ conn_last.env.create = "ok"
    /\ conn_last.env.probe = "schema"
    /\ ~conn_last.env.move
    /\ conn_last.before.dir = "data"
    /\ conn_last.raised
    /\ fs_dir = "data"
    /\ ~connected

\* C30: the adapter is connected only with a client whose probe passed;
\* after a call of init_connection that raised it is not connected; an
\* operation on a connected adapter goes on with the client it had.
C30_ConnectedMeansProbed ==
    /\ connected => (client # None /\ client[1].probed)
    /\ (conn_last.op = "connect" /\ conn_last.raised) => ~connected
    /\ conn_last.op = "reuse" =>
          (conn_last.used = client /\ client = conn_last.before.client)

---------------------------------------------------------------------------
(* Claims about the splitter's cuts and the chunk policy *)

\* A text without sentence-ending marker and without whitespace.
MarkerFree(text) == \A i \in 1..Len(text) : text[i] = "a"

\* ceil(a / b) for a >= 0, b > 0.
CeilDiv(a, b) == (a + b - 1) \div b

\* C24: for a text of length L > max_chars without marker or whitespace and
\* a policy with 0 <= overlap < max_chars, the k-th cut of the splitter
\* starts at offset k * (max_chars - overlap), every chunk has at most
\* max_chars characters, and ceil((L - overlap) / (max_chars - overlap))
\* chunks are returned.
C24_CutArithmetic ==
    LET L == Len(s_text)
        m == s_policy.max_chars
        o == s_policy.overlap
    IN  (s_pc \in {"loop", "done"} /\ MarkerFree(s_text) /\ L > m /\ o < m) =>
            /\ s_pc = "loop" => s_start = Len(s_chunks) * (m - o)
            /\ \A k \in 1..Len(s_chunks) : Len(s_chunks[k]) <= m
            /\ s_pc = "done" => Len(s_chunks) = CeilDiv(L - o, m - o)

\* The positions just after a sentence-ending marker that lies after start
\* and within BoundaryWindow characters of preferred_end, each with the
\* distance of its marker from preferred_end.
MarkerCuts(text, start, preferred_end) ==
    {[cut |-> pos + Len(sentence_endings[i]),
      dist |-> Abs(pos - preferred_end)] :
        <<i, pos>> \in
            {x \in (1..Len(sentence_endings)) \X (0..Len(text)) :
                /\ x[2] > start
                /\ Abs(x[2] - preferred_end) <= BoundaryWindow
                /\ x[2] + Len(sentence_endings[x[1]]) <= Len(text)
                /\ Slice(text, x[2], x[2] + Len(sentence_endings[x[1]]))
                      = sentence_endings[x[1]]}}

\* The cuts the nearest markers give; the proposed cut without a marker.
NearestCuts(text, start, preferred_end) ==
    LET cuts == MarkerCuts(text, start, preferred_end)
    IN  IF cuts = {} THEN {preferred_end}
        ELSE {c.cut : c \in {c \in cuts : \A d \in cuts : c.dist <= d.dist}}

\* C25: a cut that is not the final one is made just after the marker
\* nearest to start + max_chars when a marker lies within 100 characters of
\* it, and at start + max_chars only without such a marker.
C25_CutSnapsToNearestMarker ==
    [][(s_pc = "loop" /\ s_start + s_chunk_size < Len(s_text)) =>
          \E end \in NearestCuts(s_text, s_start, s_start + s_chunk_size) :
              s_chunks' = SplitAppend(s_chunks, s_text, s_start, end)]_vars

\* C27: the chunker works with exactly the max_chars and overlap of the
\* policy it was given, overlap = 0 included.
C27_PolicyAppliedExactly ==
    s_pc # "idle" =>
        /\ s_chunk_size = s_policy.max_chars
        /\ s_overlap = s_policy.overlap

---------------------------------------------------------------------------
(* Claims about structural units *)

\* text is what a cut of unit_text leaves: a slice of it, stripped.
CutOf(text, unit_text) ==
    \E a \in 0..Len(unit_text), b \in 0..Len(unit_text) :
        a <= b /\ text = Strip(Slice(unit_text, a, b))

\* The blocks i..j of content joined with newlines.
RECURSIVE JoinBlocks(_, _, _)
JoinBlocks(content, i, j) ==
    IF i = j THEN content[i].text
    ELSE JoinBlocks(content, i, j - 1) \o <<"\n">> \o content[j].text

\* The chunk is made of blocks i..j of the document, all of its section.
MadeOf(chunk, content, i, j) ==
    /\ \A b \in i..j : content[b].section = chunk.section
    /\ \/ chunk.text = Strip(JoinBlocks(content, i, j))
       \/ i = j /\ CutOf(chunk.text, content[i].text)

\* C26: no chunk has text of two structural units: a chunk of a paged, slide
\* or section document is cut from the one page, slide or section whose
\* label it records, and a chunk of a paragraph document is made of
\* consecutive blocks that all carry the section the chunk records.
C26_ChunkWithinOneUnit ==
    c_pc = "done" =>
        \A k \in 1..Len(doc_chunks) :
            LET chunk == doc_chunks[k]
                content == parsed_doc.content
            IN  IF parsed_doc.type \in {"pdf", "pptx", "markdown"}
                THEN \E b \in 1..Len(content) : MadeOf(chunk, content, b, b)
                ELSE IF parsed_doc.type \in {"docx", "txt"}
                THEN \E i \in 1..Len(content), j \in 1..Len(content) :
                         i <= j /\ MadeOf(chunk, content, i, j)
                ELSE TRUE

\* Two paragraphs of different sections that fit into one chunk together
\* were chunked apart.
C26_Witness ==
    /\ c_pc = "done"
    /\ parsed_doc.type = "docx"
    /\ Len(parsed_doc.content) = 2
    /\ parsed_doc.content[1].section # parsed_doc.content[2].section
    /\ Len(JoinBlocks(parsed_doc.content, 1, 2)) <= policy.max_chars
    /\ Len(doc_chunks) = 2
    /\ doc_chunks[1].section = parsed_doc.content[1].section
    /\ doc_chunks[2].section = parsed_doc.content[2].section

---------------------------------------------------------------------------
(* Claims about concurrent and failing ingestion jobs *)

\* No other job names the document of job t.
OwnDocument(t) ==
    \A u \in 1..Len(jobs) : u # t => jobs[u].document_id # jobs[t].document_id

\* The committed Chunk rows of document d, in insertion order.
RowsOf(rows, d) == SelectSeq(rows, LAMBDA r : r.document_id = d)

\* The records of the collection of document d's course, or none.
VectorsOf(cols, d) ==
    IF d \in DOMAIN documents
       /\ CollectionName(Str(documents[d].course_id)) \in DOMAIN cols
    THEN cols[CollectionName(Str(documents[d].course_id))]
    ELSE <<>>

\* What job t writes when it runs alone from the initial tables: its rows
\* get the ids 1, 2, ...
Alone(t) ==
    LET d == jobs[t].document_id
        chunks == ChunkDocument(JobChunker(jobs[t].chunk_policy), StoredFiles[d])
        embeddings == GetEmbeddingsBatch([k \in 1..Len(chunks) |-> chunks[k].text])
    IN  PersistFold(chunks, embeddings, d, UploadedDocuments[d].course_id, 1,
                    [rows |-> <<>>, vector_records |-> <<>>])

\* The task status and progress committed by a job that met no exception,
\* by the position it has reached.
AloneTask(pc) ==
    CASE pc = "created"  -> <<"queued", 0>>
      [] pc = "started"  -> <<"processing", 1>>
      [] pc = "parsed"   -> <<"processing", 3>>
      [] pc = "chunked"  -> <<"processing", 5>>
      [] pc = "embedded" -> <<"processing", 7>>
      [] pc = "finished" -> <<"done", 10>>

\* C23: with two jobs for different documents, a step of one job that ends
\* in an exception leaves the other job, its task, its document, its rows
\* and its vector records as they were; and under every interleaving a job
\* that met no exception has the task status and progress, and on finishing
\* the rows and vector records, of a run alone (the row ids counted from the
\* first id the job was given).
C23_FailureIsolated ==
    /\ [][\A t \in 1..Len(jobs) : \A u \in 1..Len(jobs) :
             (/\ ~Raised(jobs[t]) /\ Raised(jobs'[t])
              /\ jobs[u].document_id # jobs[t].document_id) =>
                /\ tasks'[u] = tasks[u]
                /\ jobs'[u] = jobs[u]
                /\ jobs[u].document_id \in DOMAIN documents =>
                      documents'[jobs[u].document_id] =
                          documents[jobs[u].document_id]
                /\ RowsOf(chunk_rows', jobs[u].document_id) =
                      RowsOf(chunk_rows, jobs[u].document_id)
                /\ VectorsOf(collections', jobs[u].document_id) =
                      VectorsOf(collections, jobs[u].document_id)]_vars
    /\ [](\A u \in 1..Len(jobs) :
             (~Raised(jobs[u]) /\ OwnDocument(u)) =>
                /\ <<tasks[u].status, tasks[u].progress>> = AloneTask(jobs[u].pc)
                /\ tasks[u].error_message = None
                /\ jobs[u].pc = "finished" =>
                      LET d == jobs[u].document_id
                          rows == RowsOf(chunk_rows, d)
                          alone == Alone(u)
                          base == rows[1].id - 1
                      IN  /\ Len(rows) = Len(alone.rows)
                          /\ \A k \in 1..Len(rows) :
                                /\ [rows[k] EXCEPT !.id = @ - base] = alone.rows[k]
                                /\ jobs[u].vector_records[k] =
                                      [alone.vector_records[k] EXCEPT
                                          !.chunk_id = Str(rows[k].id)]
                                /\ Str(rows[k].id) \in DOMAIN VectorsOf(collections, d)
                                /\ VectorsOf(collections, d)[Str(rows[k].id)].document
                                      = alone.rows[k].chunk_text
                          /\ documents[d].status = "ready")

\* The first job failed at the upsert, then the second job, for another
\* document, finished.
C23_Witness ==
    /\ Len(jobs) = 2
    /\ jobs[1].document_id # jobs[2].document_id
    /\ jobs[1].pc = "failed"
    /\ tasks[1].error_message = Some("upsert failed")
    /\ jobs[2].pc = "finished"
    /\ tasks[2].status = "done"
    /\ RowsOf(chunk_rows, jobs[2].document_id) # <<>>
    /\ RowsOf(chunk_rows, jobs[2].document_id)[1].id > 1

\* C28: a step of a job that ends in an exception makes no Chunk row
\* durable: the committed rows after it are those committed before it.
C28_FailureCommitsNoRows ==
    [][\A t \in 1..Len(jobs) :
          (~Raised(jobs[t]) /\ Raised(jobs'[t])) => chunk_rows' = chunk_rows]_vars

\* C29: every task whose job started reaches done or failed; a job that has
\* ended takes no further step, so by then its task is done or failed.
C29_EndedJobHasTerminalTask ==
    \A t \in 1..Len(jobs) :
        jobs[t].pc \in {"finished", "failed", "crashed"} => Terminal(tasks[t])

===========================================================================
